---- MODULE Spec2Model ----
(***************************************************************************)
(* Devlog web client: the route guard (src/middleware.ts), the data hooks  *)
(* (src/hooks/*, use-auth, use-create-project, ...) and the pages that     *)
(* consume them.  Strings whose characters matter (paths, cookie values)   *)
(* are sequences of one-character strings, so that startsWith,             *)
(* toUpperCase and encodeURIComponent are computed, not assumed.           *)
(***************************************************************************)
EXTENDS Integers, Sequences, FiniteSets, TLC

VARIABLES
    mwReq,      \* the NextRequest handed to middleware (pathname, search, cookies, env)
    mwResp      \* the NextResponse middleware returned for mwReq

guardVars == <<mwReq, mwResp>>

\* The browser the hooks run in
VARIABLES
    apiHost,    \* NEXT_PUBLIC_API_HOST is configured
    cookie      \* document.cookie: a sequence of [name, value] pairs

\* One instance of a list or detail hook (useProjects, useWorklogs,
\* useProjectDetail, useWorklogDetail)
VARIABLES
    hk,         \* which hook this instance is
    hParams,    \* the route parameters (projectId, worklogId) are defined
    hMounted,   \* the component using the hook is mounted
    hLoading,   \* useState: loading
    hError,     \* useState: error
    hNotFound,  \* useState: notFound (detail hooks)
    hData,      \* useState: data
    hAbortRef,  \* abortRef.current: index of its controller in hCtrl, 0 for null
    hCtrl,      \* one record per load() call that issued a request
    hRemoves,   \* one record per remove() call
    hReturned   \* what the remove() call that returned last resolved with

\* What the claims about remove() need to remember of a list hook; the
\* hook reads neither
VARIABLES
    hRemoveRes,     \* the response the remove() call that returned last had received
    hDeletedSince   \* per load in flight: the ids whose DELETE succeeded since it was issued

listHistory == <<hRemoveRes, hDeletedSince>>

hookState == <<hLoading, hError, hNotFound, hData>>
hookVars == <<hk, hParams, hMounted, hLoading, hError, hNotFound, hData, hAbortRef,
              hCtrl, hRemoves, hReturned>>

\* One instance of a submit hook (useLogin, useRegister, useCreateProject,
\* useUpdateProject, useCreateWorklog, useUpdateWorklog)
VARIABLES
    sk,         \* which hook this instance is
    sParams,    \* the route parameters (projectId, worklogId) are defined
    sMounted,   \* the form using the hook is mounted
    sIsLoading, \* useState: isLoading
    sError,     \* useState: error
    sAbortRef,  \* abortRef.current: index of its controller in sCalls, 0 for null
    sCalls,     \* one record per submit call
    sReturned   \* what the submit call that returned last resolved with, and
                \* the response it had received

submitState == <<sIsLoading, sError>>
submitVars == <<sk, sParams, sMounted, sIsLoading, sError, sAbortRef, sCalls, sReturned>>

\* One instance of useDashboardData
VARIABLES
    dMounted,   \* the dashboard page is mounted
    dLoading,   \* useState: loading
    dError,     \* useState: error
    dData,      \* useState: data
    dAbortRef,  \* abortRef.current: index of its controller in dCtrl, 0 for null
    dCtrl       \* one record per load() call that issued requests

dashState == <<dLoading, dError, dData>>
dashVars == <<dMounted, dLoading, dError, dData, dAbortRef, dCtrl>>

\* One page of a project: ProjectDetail, WorklogsList or WorklogDetail
VARIABLES
    pgPage,         \* which page is open
    pgServerStatus, \* the status of the project on the server
    pgPd,           \* what useProjectDetail returns to the page
    pgMain,         \* what useWorklogs / useWorklogDetail returns to the page
    pgBusy,         \* useState: deleting ("deleting" for true) or busyId
    pgDialog,       \* the confirmation dialog that is open
    pgSent,         \* the mutating requests the page has issued
    pgRoute         \* where router.push has taken the user, "" while on the page

pageVars == <<pgPage, pgServerStatus, pgPd, pgMain, pgBusy, pgDialog, pgSent, pgRoute>>

\* EditWorklogForm with its useWorklogDetail and useUpdateWorklog
VARIABLES
    efData,         \* useWorklogDetail: data, Null until the worklog is loaded
    efActivityType, \* useState: activityType
    efSummary,      \* useState: summary
    efTimeSpent,    \* useState: timeSpent, the text of the number input
    efBlockers,     \* useState: blockers
    efFieldErrors,  \* useState: fieldErrors, the fields that carry a message
    efIsLoading,    \* useUpdateWorklog: isLoading
    efToast,        \* the toast shown last, "" for none
    efSent,         \* the bodies of the PUT requests issued, oldest first
    efRoute         \* where the router has taken the user, "" while on the form

editVars == <<efData, efActivityType, efSummary, efTimeSpent, efBlockers, efFieldErrors,
              efIsLoading, efToast, efSent, efRoute>>

\* AddWorklogForm with its useCreateWorklog
VARIABLES
    afMounted,      \* the form is mounted and its effects have run
    afLogDate,      \* useState: logDate
    afActivityType, \* useState: activityType
    afSummary,      \* useState: summary
    afTimeSpent,    \* useState: timeSpent, the text of the number input
    afBlockers,     \* useState: blockers
    afFieldErrors,  \* useState: fieldErrors, the fields that carry a message
    afDateUsed,     \* useState: dateUsed
    afCheckingDate, \* useState: checkingDate
    afChecks,       \* one record per runDateCheck call that reached checkConflict
    afIsLoading,    \* useCreateWorklog: isLoading
    afSent,         \* the POST requests issued, oldest first
    afRoute         \* where the router has taken the user, "" while on the form

addVars == <<afMounted, afLogDate, afActivityType, afSummary, afTimeSpent, afBlockers,
             afFieldErrors, afDateUsed, afCheckingDate, afChecks, afIsLoading, afSent,
             afRoute>>

vars == <<guardVars, apiHost, cookie, hookVars, listHistory, submitVars, dashVars, pageVars,
          editVars, addVars>>

\* What an action of one part leaves alone in the other parts
notGuard == <<apiHost, cookie, hookVars, listHistory, submitVars, dashVars, pageVars, editVars, addVars>>
notHook == <<guardVars, submitVars, dashVars, pageVars, editVars, addVars>>
notSubmit == <<hookVars, listHistory, dashVars, pageVars, editVars, addVars>>     \* and the guard, but for LoginPage
notDash == <<guardVars, hookVars, listHistory, submitVars, pageVars, editVars, addVars>>
notPages == <<guardVars, hookVars, listHistory, submitVars, dashVars, editVars, addVars>>
notEdit == <<guardVars, apiHost, cookie, hookVars, listHistory, submitVars, dashVars, pageVars,
             addVars>>
notAdd == <<guardVars, apiHost, cookie, hookVars, listHistory, submitVars, dashVars, pageVars,
            editVars>>

(***************************************************************************)
(* Character strings                                                       *)
(***************************************************************************)
\* A cookie, environment variable or URL parameter that is not set: a value no
\* character string equals
Absent == <<"(absent)">>
EmptyStr == <<>>

P_root == <<"/">>
P_login == <<"/", "l", "o", "g", "i", "n">>
P_dashboard == <<"/", "d", "a", "s", "h", "b", "o", "a", "r", "d">>
P_dashboard_stats == <<"/", "d", "a", "s", "h", "b", "o", "a", "r", "d", "/", "s", "t", "a", "t", "s">>
P_dashboardx == <<"/", "d", "a", "s", "h", "b", "o", "a", "r", "d", "x">>
P_projects == <<"/", "p", "r", "o", "j", "e", "c", "t", "s">>
P_projects_1 == <<"/", "p", "r", "o", "j", "e", "c", "t", "s", "/", "1">>
P_worklogs == <<"/", "w", "o", "r", "k", "l", "o", "g", "s">>
P_settings == <<"/", "s", "e", "t", "t", "i", "n", "g", "s">>
P_admin == <<"/", "a", "d", "m", "i", "n">>
P_admin_users == <<"/", "a", "d", "m", "i", "n", "/", "u", "s", "e", "r", "s">>
P_administrator == <<"/", "a", "d", "m", "i", "n", "i", "s", "t", "r", "a", "t", "o", "r">>
P_profile == <<"/", "p", "r", "o", "f", "i", "l", "e">>
P_signin == <<"/", "s", "i", "g", "n", "i", "n">>
R_USER == <<"U", "S", "E", "R">>
R_ADMIN == <<"A", "D", "M", "I", "N">>
R_user == <<"u", "s", "e", "r">>
R_admin == <<"a", "d", "m", "i", "n">>
R_Admin == <<"A", "d", "m", "i", "n">>
R_GUEST == <<"G", "U", "E", "S", "T">>
R_ADMINX == <<"A", "D", "M", "I", "N", "X">>
Q_a1 == <<"?", "a", "=", "1">>
T_jwt == <<"j", "w", "t">>

\* String.prototype.startsWith
startsWith(s, p) == Len(p) <= Len(s) /\ SubSeq(s, 1, Len(p)) = p

LowerLetters == <<"a", "b", "c", "d", "e", "f", "g", "h", "i", "j", "k", "l", "m",
                  "n", "o", "p", "q", "r", "s", "t", "u", "v", "w", "x", "y", "z">>
UpperLetters == <<"A", "B", "C", "D", "E", "F", "G", "H", "I", "J", "K", "L", "M",
                  "N", "O", "P", "Q", "R", "S", "T", "U", "V", "W", "X", "Y", "Z">>

\* toUpperCase of one character: lower-case letters map to their capital,
\* everything else is kept.
UpperChar(c) ==
    IF \E i \in 1..26 : LowerLetters[i] = c
    THEN UpperLetters[CHOOSE i \in 1..26 : LowerLetters[i] = c]
    ELSE c

\* String.prototype.toUpperCase
toUpperCase(s) == [i \in 1..Len(s) |-> UpperChar(s[i])]

Digits == {"0", "1", "2", "3", "4", "5", "6", "7", "8", "9"}
UnreservedMarks == {"-", "_", ".", "!", "~", "*", "'", "(", ")"}

\* encodeURIComponent of one character of the alphabet the requests use
EncodeChar(c) ==
    IF \/ \E i \in 1..26 : LowerLetters[i] = c \/ UpperLetters[i] = c
       \/ c \in Digits \/ c \in UnreservedMarks
    THEN <<c>>
    ELSE CASE c = "/" -> <<"%", "2", "F">>
           [] c = "?" -> <<"%", "3", "F">>
           [] c = "=" -> <<"%", "3", "D">>
           [] c = "&" -> <<"%", "2", "6">>
           [] OTHER   -> <<"%", "?", "?">>

RECURSIVE encodeURIComponent(_)
encodeURIComponent(s) ==
    IF s = <<>> THEN <<>> ELSE EncodeChar(Head(s)) \o encodeURIComponent(Tail(s))

(***************************************************************************)
(* Route guard: src/middleware.ts                                          *)
(***************************************************************************)
Role_USER == R_USER
Role_ADMIN == R_ADMIN

dashboardGroupPrefixes == <<P_dashboard, P_projects, P_worklogs, P_settings>>

\* `x || ""` on a cookie value or environment variable
OrEmpty(x) == IF x = Absent THEN EmptyStr ELSE x

\* process.env.NEXT_PUBLIC_NO_AUTH_REDIRECT || "/login"
loginPathOf(env) == IF OrEmpty(env) = EmptyStr THEN P_login ELSE env

NextResponse_next == [kind |-> "next", pathname |-> EmptyStr, d |-> Absent]
NextResponse_redirect(pathname, d) == [kind |-> "redirect", pathname |-> pathname, d |-> d]

NoTokenCheckMiddleware(req) ==
    LET pathname == req.pathname
        isDashboard == \E i \in 1..Len(dashboardGroupPrefixes) :
                          startsWith(pathname, dashboardGroupPrefixes[i])
        isAdmin == startsWith(pathname, P_admin)
        role == toUpperCase(OrEmpty(req.role))
        loginPath == loginPathOf(req.env)
    IN  IF ~isDashboard /\ ~isAdmin THEN NextResponse_next
        ELSE IF isDashboard /\ role # Role_USER
        THEN NextResponse_redirect(IF role = Role_ADMIN THEN P_admin ELSE loginPath, Absent)
        ELSE IF isAdmin /\ role # Role_ADMIN
        THEN NextResponse_redirect(IF role = Role_USER THEN P_dashboard ELSE loginPath, Absent)
        ELSE NextResponse_next

NoUpperCaseMiddleware(req) ==
    LET pathname == req.pathname
        isDashboard == \E i \in 1..Len(dashboardGroupPrefixes) :
                          startsWith(pathname, dashboardGroupPrefixes[i])
        isAdmin == startsWith(pathname, P_admin)
        token == OrEmpty(req.token)
        role == OrEmpty(req.role)
        loginPath == loginPathOf(req.env)
    IN  IF ~isDashboard /\ ~isAdmin THEN NextResponse_next
        ELSE IF token = EmptyStr
        THEN NextResponse_redirect(loginPath, encodeURIComponent(pathname \o req.search))
        ELSE IF isDashboard /\ role # Role_USER
        THEN NextResponse_redirect(IF role = Role_ADMIN THEN P_admin ELSE loginPath, Absent)
        ELSE IF isAdmin /\ role # Role_ADMIN
        THEN NextResponse_redirect(IF role = Role_USER THEN P_dashboard ELSE loginPath, Absent)
        ELSE NextResponse_next

middleware(req) ==
    LET pathname == req.pathname
        isDashboard == \E i \in 1..Len(dashboardGroupPrefixes) :
                          startsWith(pathname, dashboardGroupPrefixes[i])
        isAdmin == startsWith(pathname, P_admin)
        token == OrEmpty(req.token)
        role == toUpperCase(OrEmpty(req.role))
        loginPath == loginPathOf(req.env)
    IN  IF ~isDashboard /\ ~isAdmin THEN NextResponse_next
        ELSE IF token = EmptyStr
        THEN NextResponse_redirect(loginPath, encodeURIComponent(pathname \o req.search))
        ELSE IF isDashboard /\ role # Role_USER
        THEN NextResponse_redirect(IF role = Role_ADMIN THEN P_admin ELSE loginPath, Absent)
        ELSE IF isAdmin /\ role # Role_ADMIN
        THEN NextResponse_redirect(IF role = Role_USER THEN P_dashboard ELSE loginPath, Absent)
        ELSE NextResponse_next

\* config.matcher: "/p/:path*" matches /p itself and every path below it
matcherPrefixes == <<P_dashboard, P_projects, P_worklogs, P_settings, P_admin>>
Under(pathname, p) == pathname = p \/ startsWith(pathname, p \o <<"/">>)
config_matcher(pathname) ==
    \E i \in 1..Len(matcherPrefixes) : Under(pathname, matcherPrefixes[i])

\* The requests the guard is exercised with
Pathnames == {P_root, P_login, P_dashboard, P_dashboard_stats, P_dashboardx,
              P_projects, P_projects_1, P_worklogs, P_settings, P_admin,
              P_admin_users, P_administrator, P_profile}
Searches == {EmptyStr, Q_a1}
TokenCookies == {Absent, EmptyStr, T_jwt}
RoleCookies == {Absent, EmptyStr, R_USER, R_ADMIN, R_user, R_admin, R_Admin,
                R_GUEST, R_ADMINX}
LoginEnvs == {Absent, EmptyStr, P_signin}
Requests == [pathname : Pathnames, search : Searches, token : TokenCookies,
             role : RoleCookies, env : LoginEnvs]

\* No response yet: the request has not reached the guard
NoResponse == [kind |-> "pending", pathname |-> EmptyStr, d |-> Absent]

InitGuardVars ==
    /\ mwReq \in Requests
    /\ mwResp = NoResponse

\* The request reaches the guard and is answered.
HandleRequest ==
    /\ mwResp = NoResponse
    /\ mwResp' = middleware(mwReq)
    /\ UNCHANGED <<mwReq, notGuard>>

(***************************************************************************)
(* List and detail hooks: src/hooks/use-projects.ts, use-worklogs.ts (with *)
(* use-project-detail appended to it) and use-worklog-detail               *)
(***************************************************************************)
MaxLoads == 2       \* load() calls that issue a request, per hook instance
MaxRemoves == 1     \* remove() calls that issue a request, per hook instance

\* null / undefined is the empty sequence, a value v is <<v>>
Null == <<>>
Some(x) == <<x>>
Val(o) == o[1]

HookKinds == {"useProjects", "useWorklogs", "useProjectDetail", "useWorklogDetail"}
IsListHook == hk \in {"useProjects", "useWorklogs"}

COOKIE_ACCESS_TOKEN == "access_token"
COOKIE_ROLE == "role"

\* What login and logout leave in document.cookie
SessionJars ==
    { <<>>,
      <<[name |-> "access_token", value |-> "jwt1"]>> }

\* ... and what else the page may be opened with: another token beside a role
\* cookie, an empty token (last, or followed by another cookie), and a token
\* set twice
CookieJars ==
    SessionJars \cup
    { <<[name |-> "access_token", value |-> "jwt2"], [name |-> "role", value |-> "USER"]>>,
      <<[name |-> "access_token", value |-> ""]>>,
      <<[name |-> "access_token", value |-> ""], [name |-> "role", value |-> "USER"]>>,
      <<[name |-> "access_token", value |-> "jwt1"], [name |-> "access_token", value |-> "jwt2"]>> }

\* getCookie: `; ${document.cookie}` split at `; ${name}=` must give exactly two
\* parts (one occurrence of the name); an empty rest gives null, otherwise the
\* text up to the next ";" is returned (possibly the empty string).
getCookie(jar, name) ==
    LET occ == {i \in 1..Len(jar) : jar[i].name = name}
    IN  IF Cardinality(occ) = 1
        THEN LET i == CHOOSE j \in occ : TRUE
             IN  IF i = Len(jar) /\ jar[i].value = "" THEN Null ELSE Some(jar[i].value)
        ELSE Null

\* `!token` for a string | null
OnlyNullFalsy(o) == o = Null
Falsy(o) == o = Null \/ Val(o) = ""

SessionInvalid == "Sesi tidak valid. Silakan login kembali."
InvalidProjectId == "ID project tidak valid."
InvalidParameter == "Parameter tidak valid."

LoadFailed ==
    CASE hk = "useProjects"      -> "Gagal memuat projects. Coba lagi."
      [] hk = "useWorklogs"      -> "Gagal memuat worklogs. Coba lagi."
      [] hk = "useProjectDetail" -> "Gagal memuat project. Coba lagi."
      [] hk = "useWorklogDetail" -> "Gagal memuat worklog. Coba lagi."

\* `Request failed: ${res.status}`
RequestFailed(status) == "Request failed: " \o ToString(status)

\* A res.ok that holds for every status
AnyStatusOk(status) == status >= 0

\* Response.ok
ResOk(status) == status >= 200 /\ status <= 299

\* What a fetch settles with: an HTTP response (status, and the parsed body when
\* the content type is JSON), a network failure, or the rejection of an aborted
\* request.
Http(status, json) == [kind |-> "http", status |-> status, json |-> json]
NetworkError == [kind |-> "network", status |-> 0, json |-> Null]
AbortError == [kind |-> "abort", status |-> 0, json |-> Null]

Json(success, message, data, meta) ==
    [success |-> success, message |-> message, data |-> data, meta |-> meta]

Meta(page, limit, totalItems, totalPages) ==
    [page |-> page, limit |-> limit, totalItems |-> totalItems, totalPages |-> totalPages]

\* Pages of a list as the server may return them. A number a response leaves
\* out is Null.
ListBodies ==
    { Json(TRUE, Null, <<"i1", "i2">>, Some(Meta(Some(1), Some(2), Some(3), Some(2)))),
      Json(TRUE, Null, <<"i3">>, Some(Meta(Some(2), Some(2), Some(3), Some(2)))),
      Json(TRUE, Null, <<>>, Some(Meta(Some(1), Some(2), Some(0), Some(1)))),
      Json(TRUE, Null, <<"i2", "i1">>, Null),
      Json(TRUE, Null, <<"i1">>, Some(Meta(Some(1), Null, Some(1), Some(1)))) }

ErrorBodies ==
    { Json(FALSE, Some("server says no"), Null, Null),
      Json(FALSE, Some(""), Null, Null) }

ErrorResponses ==
    {Http(500, Some(b)) : b \in ErrorBodies} \cup {Http(500, Null), Http(404, Null)}

ProjectBodies ==
    { Json(TRUE, Null, Some([id |-> "p1", status |-> "ACTIVE"]), Null),
      Json(TRUE, Null, Some([id |-> "p1", status |-> "ARCHIVED"]), Null),
      Json(TRUE, Null, Null, Null) }

WorklogPreviewBodies ==
    { Json(TRUE, Null, <<"w1">>, Some(Meta(Some(1), Some(5), Some(1), Some(1)))),
      Json(TRUE, Null, <<>>, Null) }

WorklogBodies ==
    { Json(TRUE, Null, Some([id |-> "w1", logDate |-> "2026-01-01"]), Null),
      Json(TRUE, Null, Some([id |-> "w1", logDate |-> "2026-01-02"]), Null),
      Json(TRUE, Null, Null, Null) }

\* The outcomes of the request a load() has in flight
LoadOutcomes ==
    LET bodies == CASE hk = "useProjectDetail" -> ProjectBodies
                    [] hk = "useWorklogDetail" -> WorklogBodies
                    [] OTHER                   -> ListBodies
    IN  {Http(200, Some(b)) : b \in bodies} \cup {Http(200, Null)}
            \cup ErrorResponses \cup {NetworkError}

PreviewOutcomes ==
    {Http(200, Some(b)) : b \in WorklogPreviewBodies}
        \cup {Http(200, Null), Http(500, Null), NetworkError}

\* fetchWithAuth: the body of a 2xx response (null when it is not JSON), or
\* an Error thrown with the body's message or "Request failed: <status>"; a
\* rejected fetch is thrown on as it is.
fetchWithAuth(res) ==
    IF res.kind # "http"
    THEN [threw |-> TRUE, message |-> res.kind, value |-> Null]
    ELSE IF ~ResOk(res.status)
    THEN [threw |-> TRUE,
          message |-> IF res.json # Null /\ ~Falsy(Val(res.json).message)
                      THEN Val(Val(res.json).message)
                      ELSE RequestFailed(res.status),
          value |-> Null]
    ELSE [threw |-> FALSE, message |-> "", value |-> res.json]

EmptyDetail == [project |-> Null, worklogs |-> <<>>, worklogsMeta |-> Null]

ParamsValid == hk = "useProjects" \/ hParams

\* abortRef.current === controller
AlwaysLatest(c) == TRUE
IsLatest(c) == hAbortRef = c

\* abortRef.current?.abort()
AbortCurrent(ctrl) ==
    IF hAbortRef = 0 THEN ctrl
    ELSE [ctrl EXCEPT ![hAbortRef].aborted = TRUE]

InitBrowser ==
    /\ apiHost \in BOOLEAN
    /\ cookie \in CookieJars

IdleBrowser ==
    /\ apiHost = TRUE
    /\ cookie = <<>>

InitHookVars ==
    /\ hk \in HookKinds
    /\ hParams \in BOOLEAN
    /\ (hk = "useProjects" => hParams)
    /\ hMounted = TRUE
    /\ hLoading = TRUE
    /\ hError = ""
    /\ hNotFound = FALSE
    /\ hData = (IF hk = "useProjectDetail" THEN EmptyDetail ELSE Null)
    /\ hAbortRef = 0
    /\ hCtrl = <<>>
    /\ hRemoves = <<>>
    /\ hReturned = Null
    /\ hRemoveRes = Null
    /\ hDeletedSince = <<>>

IdleHook ==
    /\ hk = "useProjects"
    /\ hParams = TRUE
    /\ hMounted = FALSE
    /\ hLoading = TRUE
    /\ hError = ""
    /\ hNotFound = FALSE
    /\ hData = Null
    /\ hAbortRef = 0
    /\ hCtrl = <<>>
    /\ hRemoves = <<>>
    /\ hReturned = Null
    /\ hRemoveRes = Null
    /\ hDeletedSince = <<>>

NullData == IF hk = "useProjectDetail" THEN EmptyDetail ELSE Null

\* `superseded` only records, when the call ends, whether a newer load() had
\* replaced its controller in abortRef by then; the code never reads it.
NewController(token) ==
    [aborted |-> FALSE, pc |-> "fetch", token |-> token, project |-> Null,
     superseded |-> FALSE]

\* body.message of a non-2xx response, null when it has none
ServerMessage(res) ==
    IF res.kind = "http" /\ ~ResOk(res.status) /\ res.json # Null
          /\ ~Falsy(Val(res.json).message)
    THEN Val(res.json).message
    ELSE Null

\* load(): everything up to its first await
Load ==
    /\ hMounted
    /\ Len(hCtrl) < MaxLoads
    /\ LET token == getCookie(cookie, COOKIE_ACCESS_TOKEN)
       IN  IF ~ParamsValid
           THEN /\ hLoading' = FALSE
                /\ hError' = (IF hk = "useWorklogDetail" THEN InvalidParameter
                              ELSE InvalidProjectId)
                /\ hData' = (IF hk = "useProjectDetail" THEN hData ELSE Null)
                /\ UNCHANGED <<hNotFound, hAbortRef, hCtrl>>
           ELSE IF ~apiHost \/ Falsy(token)
           THEN /\ hLoading' = FALSE
                /\ hError' = SessionInvalid
                /\ hNotFound' = (IF IsListHook THEN hNotFound ELSE FALSE)
                /\ hData' = NullData
                /\ UNCHANGED <<hAbortRef, hCtrl>>
           ELSE /\ hLoading' = TRUE
                /\ hError' = ""
                /\ hNotFound' = (IF IsListHook THEN hNotFound ELSE FALSE)
                /\ hCtrl' = Append(AbortCurrent(hCtrl), NewController(Val(token)))
                /\ hAbortRef' = Len(hCtrl) + 1
                /\ UNCHANGED hData
    /\ UNCHANGED <<hk, hParams, apiHost, cookie, hMounted, hRemoves, hReturned, notHook>>

\* catch block of load(): an aborted or superseded request is ignored
LoadCatch(c) ==
    IF hCtrl[c].aborted \/ ~IsLatest(c)
    THEN UNCHANGED <<hError, hData>>
    ELSE hError' = LoadFailed /\ hData' = NullData

\* finally block of load()
LoadFinally(c) == hLoading' = (IF IsLatest(c) THEN FALSE ELSE hLoading)

\* The call has run to its end; nothing of it is read again
Done(c) ==
    hCtrl' = [hCtrl EXCEPT ![c].pc = "done", ![c].token = "", ![c].project = Null,
                           ![c].superseded = (hAbortRef # c)]

\* useProjects.load / useWorklogs.load after `await fetchWithAuth(...)`
ListLoadSettle(c, res) ==
    LET f == fetchWithAuth(res)
    IN  /\ IF f.threw
           THEN LoadCatch(c)
           ELSE /\ hData' = (IF IsLatest(c) THEN f.value ELSE hData)
                /\ UNCHANGED hError
        /\ LoadFinally(c)
        /\ Done(c)
        /\ UNCHANGED hNotFound

\* useWorklogDetail.load after `await fetch(...)` and the body
WorklogDetailLoadSettle(c, res) ==
    /\ IF res.kind # "http"
       THEN LoadCatch(c) /\ UNCHANGED hNotFound
       ELSE IF ~ResOk(res.status)
       THEN IF res.status = 404
            THEN /\ hNotFound' = (IF IsLatest(c) THEN TRUE ELSE hNotFound)
                 /\ hData' = (IF IsLatest(c) THEN Null ELSE hData)
                 /\ UNCHANGED hError
            ELSE LoadCatch(c) /\ UNCHANGED hNotFound
       ELSE /\ hData' = (IF ~IsLatest(c) THEN hData
                         ELSE IF res.json = Null THEN Null
                         ELSE Val(res.json).data)
            /\ UNCHANGED <<hError, hNotFound>>
    /\ LoadFinally(c)
    /\ Done(c)

\* useProjectDetail.load after the project request
ProjectLoadSettle(c, res) ==
    IF res.kind = "http" /\ ResOk(res.status)
    THEN /\ hCtrl' = [hCtrl EXCEPT ![c].pc = "worklogs",
                                   ![c].project = (IF res.json = Null THEN Null
                                                   ELSE Val(res.json).data)]
         /\ UNCHANGED hookState
    ELSE /\ IF res.kind = "http" /\ res.status = 404
            THEN /\ hNotFound' = (IF IsLatest(c) THEN TRUE ELSE hNotFound)
                 /\ hData' = (IF IsLatest(c) THEN EmptyDetail ELSE hData)
                 /\ UNCHANGED hError
            ELSE LoadCatch(c) /\ UNCHANGED hNotFound
         /\ LoadFinally(c)
         /\ Done(c)

\* useProjectDetail.load after the worklogs preview, whose failures give null
PreviewLoadSettle(c, res) ==
    LET worklogsBody == IF res.kind = "http" /\ ResOk(res.status) THEN res.json ELSE Null
    IN  /\ hData' = (IF ~IsLatest(c) THEN hData
                     ELSE [project |-> hCtrl[c].project,
                           worklogs |-> (IF worklogsBody = Null THEN <<>>
                                         ELSE Val(worklogsBody).data),
                           worklogsMeta |-> (IF worklogsBody = Null THEN Null
                                             ELSE Val(worklogsBody).meta)])
        /\ UNCHANGED <<hError, hNotFound>>
        /\ LoadFinally(c)
        /\ Done(c)

\* The request of load() call c settles: an aborted request rejects, any other
\* gets a response or a network failure.
LoadSettle(c) ==
    /\ hCtrl[c].pc # "done"
    /\ \E res \in (IF hCtrl[c].aborted THEN {AbortError}
                   ELSE IF hCtrl[c].pc = "worklogs" THEN PreviewOutcomes
                   ELSE LoadOutcomes) :
          CASE hCtrl[c].pc = "worklogs"   -> PreviewLoadSettle(c, res)
            [] hk = "useProjectDetail"    -> ProjectLoadSettle(c, res)
            [] hk = "useWorklogDetail"    -> WorklogDetailLoadSettle(c, res)
            [] OTHER                      -> ListLoadSettle(c, res)
    /\ UNCHANGED <<hk, hParams, apiHost, cookie, hMounted, hAbortRef, hRemoves, hReturned, notHook>>

\* The effect cleanup on unmount: abortRef.current?.abort()
Unmount ==
    /\ hMounted
    /\ hMounted' = FALSE
    /\ hCtrl' = AbortCurrent(hCtrl)
    /\ UNCHANGED <<hk, hParams, apiHost, cookie, hookState, hAbortRef, hRemoves, hReturned, notHook>>

\* The browser's cookies change (login, logout, expiry)
SetCookie ==
    /\ hMounted
    /\ \E jar \in SessionJars \ {cookie} : cookie' = jar
    /\ UNCHANGED <<hk, hParams, apiHost, hMounted, hookState, hAbortRef, hCtrl, hRemoves,
                   hReturned, notHook>>

ItemIds == {"i1", "i2"}

Max(a, b) == IF a >= b THEN a ELSE b

\* Math.ceil(a / b) for a >= 0, b >= 1
CeilDiv(a, b) == (a + b - 1) \div b

RemoveSubject ==
    CASE hk = "useProjects"      -> "menghapus project"
      [] hk = "useWorklogs"      -> "menghapus worklog"
      [] hk = "useProjectDetail" -> "mengarsipkan project"
      [] hk = "useWorklogDetail" -> "menghapus worklog"

\* `Gagal menghapus project (${res.status}).`
RemoveFailedStatus(status) == "Gagal " \o RemoveSubject \o " (" \o ToString(status) \o ")."
RemoveFailed == "Gagal " \o RemoveSubject \o ". Coba lagi."
RemoveSucceeded == "Berhasil " \o RemoveSubject

RemoveOutcomes ==
    { Http(200, Some(Json(TRUE, Some("deleted"), Null, Null))),
      Http(200, Some(Json(TRUE, Null, Null, Null))),
      Http(200, Some(Json(FALSE, Some("not allowed"), Null, Null))),
      Http(200, Null),
      Http(500, Some(Json(FALSE, Some("server says no"), Null, Null))),
      Http(500, Null),
      NetworkError }

Result(ok, message) == [ok |-> ok, message |-> message]

\* The optimistic update of remove(): setData((prev) => ...)
KeepTotalPagesRemoveFromData(prev, id) ==
    IF prev = Null THEN prev
    ELSE LET d == Val(prev)
             nextItems == SelectSeq(d.data, LAMBDA x : x # id)
             nextMeta ==
                 IF d.meta = Null THEN d.meta
                 ELSE LET m == Val(d.meta)
                      IN  Some([m EXCEPT
                            !.totalItems =
                                IF m.totalItems # Null
                                THEN Some(Max(0, Val(m.totalItems) - 1))
                                ELSE m.totalItems])
         IN  Some([d EXCEPT !.data = nextItems, !.meta = nextMeta])

RemoveFromData(prev, id) ==
    IF prev = Null THEN prev
    ELSE LET d == Val(prev)
             nextItems == SelectSeq(d.data, LAMBDA x : x # id)
             nextMeta ==
                 IF d.meta = Null THEN d.meta
                 ELSE LET m == Val(d.meta)
                      IN  Some([m EXCEPT
                            !.totalItems =
                                IF m.totalItems # Null
                                THEN Some(Max(0, Val(m.totalItems) - 1))
                                ELSE m.totalItems,
                            !.totalPages =
                                IF m.totalItems # Null /\ m.limit # Null
                                THEN Some(Max(1, CeilDiv(Max(0, Val(m.totalItems) - 1),
                                                         Val(m.limit))))
                                ELSE m.totalPages])
         IN  Some([d EXCEPT !.data = nextItems, !.meta = nextMeta])

\* remove(id): everything up to its first await.  A call that returns at once
\* resolves with its result, a call that issues the DELETE request waits.
Remove(id) ==
    /\ hMounted
    /\ Len(hRemoves) < MaxRemoves
    /\ LET token == getCookie(cookie, COOKIE_ACCESS_TOKEN)
           r == Len(hRemoves) + 1
           returnNow(res) ==
               /\ hRemoves' = Append(hRemoves, [id |-> id, pc |-> "done", token |-> ""])
               /\ hReturned' = Some([call |-> r, result |-> res])
       IN  IF hk # "useProjects" /\ ~hParams
           THEN /\ returnNow(Result(FALSE, IF hk = "useWorklogDetail"
                                           THEN InvalidParameter
                                           ELSE InvalidProjectId))
                /\ UNCHANGED hError
           ELSE IF ~apiHost \/ Falsy(token)
           THEN /\ returnNow(Result(FALSE, SessionInvalid))
                /\ hError' = SessionInvalid
           ELSE /\ hRemoves' = Append(hRemoves,
                       [id |-> id, pc |-> "fetch", token |-> Val(token)])
                /\ UNCHANGED <<hError, hReturned>>
    /\ UNCHANGED <<hk, hParams, apiHost, cookie, hMounted, hLoading, hNotFound, hData,
                   hAbortRef, hCtrl, notHook>>

\* remove() after `await fetch(...)` has settled with res, and the body
RemoveSettleWith(r, res) ==
    /\ hRemoves[r].pc = "fetch"
    /\ hRemoves' = [hRemoves EXCEPT ![r].pc = "done", ![r].token = ""]
    /\ LET body == res.json
           id == hRemoves[r].id
           return(result) == hReturned' = Some([call |-> r, result |-> result])
       IN  IF res.kind # "http"
           THEN return(Result(FALSE, RemoveFailed)) /\ UNCHANGED hData
           ELSE IF ~ResOk(res.status) \/ (body # Null /\ Val(body).success = FALSE)
           THEN /\ return(Result(FALSE,
                       IF body # Null /\ ~Falsy(Val(body).message)
                       THEN Val(Val(body).message)
                       ELSE RemoveFailedStatus(res.status)))
                /\ UNCHANGED hData
           ELSE /\ return(Result(TRUE,
                       IF body # Null /\ ~Falsy(Val(body).message)
                       THEN Val(Val(body).message)
                       ELSE RemoveSucceeded))
                /\ hData' = (IF IsListHook THEN RemoveFromData(hData, id) ELSE hData)
    /\ UNCHANGED <<hk, hParams, apiHost, cookie, hMounted, hLoading, hError, hNotFound,
                   hAbortRef, hCtrl, notHook>>

RemoveSettle(r) == \E res \in RemoveOutcomes : RemoveSettleWith(r, res)

NextHook ==
    \/ Load /\ UNCHANGED listHistory
    \/ \E c \in 1..Len(hCtrl) : LoadSettle(c) /\ UNCHANGED listHistory
    \/ \E id \in ItemIds : Remove(id) /\ UNCHANGED listHistory
    \/ \E r \in 1..Len(hRemoves) : RemoveSettle(r) /\ UNCHANGED listHistory
    \/ Unmount /\ UNCHANGED listHistory
    \/ SetCookie /\ UNCHANGED listHistory

\* A list hook (useProjects, useWorklogs) with the history of its removes.
\* The rows removed are one of the first page and the one of the last page.
ListItemIds == {"i1", "i3"}

\* The ids whose remove() returns ok in this step
DeletedNow ==
    {hRemoves[r].id : r \in {q \in 1..Len(hRemoves) :
                                /\ hRemoves[q].pc = "fetch" /\ hRemoves'[q].pc = "done"
                                /\ Val(hReturned').result.ok}}

\* hDeletedSince follows hCtrl: a new load starts with none, a load that has
\* ended keeps none
TrackDeleted ==
    hDeletedSince' =
        [c \in 1..Len(hCtrl') |->
            IF c > Len(hCtrl) \/ hCtrl'[c].pc = "done" THEN {}
            ELSE hDeletedSince[c] \cup DeletedNow]

NextList ==
    \/ Load /\ TrackDeleted /\ UNCHANGED hRemoveRes
    \/ \E c \in 1..Len(hCtrl) : LoadSettle(c) /\ TrackDeleted /\ UNCHANGED hRemoveRes
    \/ \E id \in ListItemIds : Remove(id) /\ TrackDeleted /\ hRemoveRes' = Null
    \/ \E r \in 1..Len(hRemoves), res \in RemoveOutcomes :
          RemoveSettleWith(r, res) /\ TrackDeleted /\ hRemoveRes' = Some(res)
    \/ Unmount /\ TrackDeleted /\ UNCHANGED hRemoveRes
    \/ SetCookie /\ TrackDeleted /\ UNCHANGED hRemoveRes


(***************************************************************************)
(* Submit hooks: use-auth (useLogin), src/hooks/use-register.ts,           *)
(* use-create-project, use-create-worklog (with use-update-project         *)
(* appended to it) and use-update-worklog                                  *)
(***************************************************************************)
MaxSubmits == 2     \* submit calls that issue a request, per hook instance

SubmitKinds == {"useLogin", "useRegister", "useCreateProject", "useUpdateProject",
                "useCreateWorklog", "useUpdateWorklog"}

\* useLogin and useRegister send no token and share parseApiError
IsAuthHook == sk \in {"useLogin", "useRegister"}

\* The hooks that are given route parameters
TakesParams == sk \in {"useUpdateProject", "useCreateWorklog", "useUpdateWorklog"}

COOKIE_REFRESH_TOKEN == "refresh_token"

ApiNotConfigured == "Konfigurasi API tidak ditemukan."
ConfigOrParamsInvalid == "Konfigurasi atau parameter tidak valid."
Cancelled == "Dibatalkan."

\* The message of the catch block
SubmitFailed ==
    CASE sk = "useLogin"         -> "Gagal melakukan login. Periksa koneksi Anda."
      [] sk = "useRegister"      -> "Gagal melakukan registrasi. Periksa koneksi Anda."
      [] sk = "useCreateProject" -> "Gagal membuat project. Coba lagi."
      [] sk = "useUpdateProject" -> "Gagal memperbarui project. Coba lagi."
      [] sk = "useCreateWorklog" -> "Gagal membuat worklog. Coba lagi."
      [] sk = "useUpdateWorklog" -> "Gagal mengupdate worklog. Coba lagi."

\* `Gagal membuat project (${res.status}).` and its siblings
SubmitFailedStatus(status) ==
    (CASE sk = "useCreateProject" -> "Gagal membuat project ("
       [] sk = "useUpdateProject" -> "Gagal memperbarui project ("
       [] sk = "useCreateWorklog" -> "Gagal membuat worklog ("
       [] sk = "useUpdateWorklog" -> "Gagal mengupdate worklog (")
        \o ToString(status) \o ")."

\* body?.message of a parsed body (null when the response is not JSON)
MessageOf(body) ==
    IF body = Null THEN Null ELSE Val(body).message

parseApiError(status, body) ==
    IF ~Falsy(MessageOf(body)) THEN Val(MessageOf(body))
    ELSE IF status = 0 THEN "Tidak dapat terhubung ke server. Coba lagi."
    ELSE IF status >= 500 THEN "Terjadi kesalahan pada server. Coba beberapa saat lagi."
    ELSE "Email atau kata sandi salah."

\* The message of the `!res.ok` branch
FallbackOnlyErrorMessage(status, body) ==
    IF IsAuthHook THEN parseApiError(status, Null)
    ELSE SubmitFailedStatus(status)

SubmitErrorMessage(status, body) ==
    IF IsAuthHook THEN parseApiError(status, body)
    ELSE IF ~Falsy(MessageOf(body)) THEN Val(MessageOf(body))
    ELSE SubmitFailedStatus(status)

\* A response as the submit hooks read it: the status, whether the content
\* type includes application/json, whether res.json() parses the body, and
\* the parsed body (Null for the JSON literal null)
Response(status, isJson, parses, json) ==
    [kind |-> "http", status |-> status, isJson |-> isJson, parses |-> parses,
     json |-> json]

LoginSuccess(access_token, refresh_token, role) ==
    [access_token |-> access_token, refresh_token |-> refresh_token, role |-> role,
     message |-> Null]

SubmitSuccessBodies ==
    IF sk = "useLogin"
    THEN { LoginSuccess(Some("jwt1"), Some("rt1"), Some("USER")),
           LoginSuccess(Some("jwt2"), Null, Some("ADMIN")) }
    ELSE { Json(TRUE, Some("created"), Some([id |-> "n1"]), Null) }

SubmitErrorStatuses == {400, 500}

\* The outcomes of the request a submit has in flight
SubmitOutcomes ==
    {Response(201, TRUE, TRUE, Some(b)) : b \in SubmitSuccessBodies}
        \cup {Response(200, FALSE, TRUE, Null)}
        \cup {Response(s, TRUE, TRUE, Some(b)) : s \in SubmitErrorStatuses, b \in ErrorBodies}
        \cup {Response(s, TRUE, TRUE, Null) : s \in SubmitErrorStatuses}
        \cup {Response(s, FALSE, TRUE, Null) : s \in SubmitErrorStatuses}
        \cup {Response(s, TRUE, FALSE, Null) : s \in {201, 400}}
        \cup {NetworkError}

SubmitResult(ok, error, data) == [ok |-> ok, error |-> error, data |-> data]

\* A setCookie whose write the browser drops
DroppedSetCookie(jar, name, value) == jar

\* setCookie: document.cookie = `${name}=${encodeURIComponent(value || "")}...`
\* replaces the cookie of that name or adds one. The values of the model are
\* made of unreserved characters, which encodeURIComponent leaves as they are.
setCookie(jar, name, value) ==
    LET v == IF value = Null THEN "" ELSE Val(value)
        occ == {i \in 1..Len(jar) : jar[i].name = name}
    IN  IF occ = {} THEN Append(jar, [name |-> name, value |-> v])
        ELSE [jar EXCEPT ![CHOOSE i \in occ : \A j \in occ : i <= j].value = v]

InitSubmitVars ==
    /\ sk \in SubmitKinds
    /\ sParams \in BOOLEAN
    /\ (~TakesParams => sParams)
    /\ sMounted = TRUE
    /\ sIsLoading = FALSE
    /\ sError = ""
    /\ sAbortRef = 0
    /\ sCalls = <<>>
    /\ sReturned = Null

IdleSubmit ==
    /\ sk = "useLogin"
    /\ sParams = TRUE
    /\ sMounted = FALSE
    /\ sIsLoading = FALSE
    /\ sError = ""
    /\ sAbortRef = 0
    /\ sCalls = <<>>
    /\ sReturned = Null

\* abortRef.current?.abort()
SubmitAbortCurrent(calls) ==
    IF sAbortRef = 0 THEN calls
    ELSE [calls EXCEPT ![sAbortRef].aborted = TRUE]

\* `superseded` only records, when the call ends, whether a newer submit had
\* replaced its controller in abortRef by then; the code never reads it.
NewSubmit(token) ==
    [aborted |-> FALSE, pc |-> "fetch", token |-> token, res |-> Null,
     superseded |-> FALSE]

\* What a call that returned resolved with, beside the response it had read
Returned(c, res, result) == Some([call |-> c, res |-> res, result |-> result])

\* login / registerAccount / create / update: everything up to the first await
Submit ==
    /\ sMounted
    /\ Len(sCalls) < MaxSubmits
    /\ LET token == getCookie(cookie, COOKIE_ACCESS_TOKEN)
           early(msg) ==
               /\ sError' = msg
               /\ sReturned' = Returned(0, Null, SubmitResult(FALSE, msg, Null))
               /\ UNCHANGED <<sIsLoading, sAbortRef, sCalls>>
       IN  IF ~apiHost \/ ~sParams
           THEN early(IF TakesParams THEN ConfigOrParamsInvalid ELSE ApiNotConfigured)
           ELSE IF ~IsAuthHook /\ Falsy(token)
           THEN early(SessionInvalid)
           ELSE /\ sCalls' = Append(SubmitAbortCurrent(sCalls),
                                    NewSubmit(IF IsAuthHook THEN "" ELSE Val(token)))
                /\ sAbortRef' = Len(sCalls) + 1
                /\ sIsLoading' = TRUE
                /\ sError' = ""
                /\ UNCHANGED sReturned
    /\ UNCHANGED <<sk, sParams, sMounted, apiHost, cookie, notSubmit>>

\* The call has run to its end; nothing of it is read again
SubmitDone(c) ==
    sCalls' = [sCalls EXCEPT ![c].pc = "done", ![c].token = "", ![c].res = Null,
                             ![c].superseded = (sAbortRef # c)]

\* catch and finally blocks: useLogin and useRegister report every rejection,
\* the other hooks return "Dibatalkan." for an aborted request without
\* setting error; all of them end with setIsLoading(false)
SubmitCatch(c, res) ==
    /\ IF ~IsAuthHook /\ sCalls[c].aborted
       THEN /\ sReturned' = Returned(c, res, SubmitResult(FALSE, Cancelled, Null))
            /\ UNCHANGED sError
       ELSE /\ sError' = SubmitFailed
            /\ sReturned' = Returned(c, res, SubmitResult(FALSE, SubmitFailed, Null))
    /\ sIsLoading' = FALSE
    /\ SubmitDone(c)
    /\ UNCHANGED cookie

\* After the body: the `!res.ok` branch, or success (useLogin stores the
\* tokens and role in cookies; reading them off a null body throws)
SubmitBody(c, res, body) ==
    IF ~ResOk(res.status)
    THEN LET msg == SubmitErrorMessage(res.status, body)
         IN  /\ sError' = msg
             /\ sReturned' = Returned(c, Some(res), SubmitResult(FALSE, msg, Null))
             /\ sIsLoading' = FALSE
             /\ SubmitDone(c)
             /\ UNCHANGED cookie
    ELSE IF sk = "useLogin" /\ body = Null
    THEN SubmitCatch(c, Some(res))
    ELSE /\ cookie' =
                (IF sk = "useLogin"
                 THEN LET data == Val(body)
                      IN  setCookie(setCookie(setCookie(cookie,
                              COOKIE_ACCESS_TOKEN, data.access_token),
                              COOKIE_REFRESH_TOKEN, data.refresh_token),
                              COOKIE_ROLE, data.role)
                 ELSE cookie)
         /\ sReturned' = Returned(c, Some(res), SubmitResult(TRUE, "", body))
         /\ sIsLoading' = FALSE
         /\ SubmitDone(c)
         /\ UNCHANGED sError

\* `await fetch(...)` settles: rejected when the request was aborted or the
\* network failed; a JSON response goes on to `await res.json()`
SubmitFetchSettle(c) ==
    /\ sCalls[c].pc = "fetch"
    /\ IF sCalls[c].aborted
       THEN SubmitCatch(c, Null)
       ELSE \E res \in SubmitOutcomes :
               IF res.kind # "http" THEN SubmitCatch(c, Null)
               ELSE IF res.isJson
               THEN /\ sCalls' = [sCalls EXCEPT ![c].pc = "json", ![c].res = Some(res)]
                    /\ UNCHANGED <<sIsLoading, sError, sReturned, cookie>>
               ELSE SubmitBody(c, res, Null)
    /\ UNCHANGED <<sk, sParams, sMounted, sAbortRef, apiHost, notSubmit>>

\* `await res.json()` settles: rejected when the request was aborted
\* meanwhile or the body does not parse
SubmitJsonSettle(c) ==
    /\ sCalls[c].pc = "json"
    /\ LET res == Val(sCalls[c].res)
       IN  IF sCalls[c].aborted \/ ~res.parses
           THEN SubmitCatch(c, sCalls[c].res)
           ELSE SubmitBody(c, res, res.json)
    /\ UNCHANGED <<sk, sParams, sMounted, sAbortRef, apiHost, notSubmit>>

\* clearError
ClearError ==
    /\ sMounted
    /\ sError # ""
    /\ sError' = ""
    /\ UNCHANGED <<sk, sParams, sMounted, sIsLoading, sAbortRef, sCalls, sReturned,
                   apiHost, cookie, notSubmit>>

\* The effect cleanup on unmount: abortRef.current?.abort()
SubmitUnmount ==
    /\ sMounted
    /\ sMounted' = FALSE
    /\ sCalls' = SubmitAbortCurrent(sCalls)
    /\ UNCHANGED <<sk, sParams, sIsLoading, sError, sAbortRef, sReturned,
                   apiHost, cookie, notSubmit>>

\* The session ends while the form is open (logout in another tab, expiry)
SessionEnds ==
    /\ sMounted
    /\ cookie # <<>>
    /\ cookie' = <<>>
    /\ UNCHANGED <<sk, sParams, sMounted, sIsLoading, sError, sAbortRef, sCalls,
                   sReturned, apiHost, notSubmit>>

\* A form other than LoginPage uses the hook: no navigation through the guard
NextSubmit ==
    \/ Submit /\ UNCHANGED guardVars
    \/ \E c \in 1..Len(sCalls) : SubmitFetchSettle(c) /\ UNCHANGED guardVars
    \/ \E c \in 1..Len(sCalls) : SubmitJsonSettle(c) /\ UNCHANGED guardVars
    \/ ClearError /\ UNCHANGED guardVars
    \/ SubmitUnmount /\ UNCHANGED guardVars
    \/ SessionEnds /\ UNCHANGED guardVars

(***************************************************************************)
(* Dashboard hook: src/hooks/use-dashboard.ts                              *)
(***************************************************************************)
MaxDashLoads == 2   \* load() calls that issue requests, per hook instance
Today == 100        \* the day load() runs on, in days
RecentCount == 5    \* slice(0, 5)

DashLoadFailed == "Gagal memuat dashboard. Coba lagi."

\* Worklogs as /projects/:id/worklogs?limit=5 returns them; createdAt and
\* logDate are in days
WorklogItem(id, createdAt, logDate) ==
    [id |-> id, createdAt |-> createdAt, logDate |-> logDate]

WorklogsOfProject(p) ==
    IF p = "p1"
    THEN <<WorklogItem("a1", 99, 99), WorklogItem("a2", 95, 94), WorklogItem("a3", 60, 60)>>
    ELSE <<WorklogItem("b1", 98, 93), WorklogItem("b2", 97, 92), WorklogItem("b3", 96, 96)>>

MeOutcomes ==
    { Http(200, Some(Json(TRUE, Null, Some([id |-> "u1"]), Null))),
      Http(200, Null),
      Http(401, Some(Json(FALSE, Some("server says no"), Null, Null))),
      NetworkError }

DashProjectsOutcomes ==
    { Http(200, Some(Json(TRUE, Null, <<[id |-> "p1"], [id |-> "p2"]>>,
                          Some(Meta(Some(1), Some(5), Some(7), Some(2)))))),
      Http(200, Some(Json(TRUE, Null, <<[id |-> "p2"]>>, Null))),
      Http(200, Some(Json(TRUE, Null, <<>>, Some(Meta(Some(1), Some(5), Null, Some(1)))))),
      Http(200, Null),
      Http(500, Null),
      NetworkError }

DashWorklogsOutcomes(p) ==
    { Http(200, Some(Json(TRUE, Null, WorklogsOfProject(p), Null))),
      Http(200, Null),
      Http(500, Null),
      NetworkError }

\* projResp?.data || []
ProjectsOf(projResp) == IF projResp = Null THEN <<>> ELSE Val(projResp).data

\* .then((w) => (w?.data || []).map((it) => ({ ...it, projectId: p.id })))
WithProjectId(w, p) ==
    LET items == IF w = Null THEN <<>> ELSE Val(w).data
    IN  [i \in 1..Len(items) |->
            [id |-> items[i].id, createdAt |-> items[i].createdAt,
             logDate |-> items[i].logDate, projectId |-> p]]

\* What the promise of one project's worklogs settles with
PropagateFailure(f, p) ==
    [threw |-> f.threw, value |-> IF f.threw THEN <<>> ELSE WithProjectId(f.value, p)]

\* ... .then(...).catch(() => [])
CatchEmpty(f, p) ==
    [threw |-> FALSE, value |-> IF f.threw THEN <<>> ELSE WithProjectId(f.value, p)]

\* worklogLists.flat()
RECURSIVE Flat(_)
Flat(lists) == IF lists = <<>> THEN <<>> ELSE Head(lists) \o Flat(Tail(lists))

\* Array.prototype.sort with (a, b) => b.createdAt - a.createdAt: stable,
\* newest first
RECURSIVE InsertByCreatedAt(_, _)
InsertByCreatedAt(sorted, w) ==
    IF sorted = <<>> THEN <<w>>
    ELSE IF Head(sorted).createdAt >= w.createdAt
    THEN <<Head(sorted)>> \o InsertByCreatedAt(Tail(sorted), w)
    ELSE <<w>> \o sorted

RECURSIVE SortByCreatedAtDesc(_)
SortByCreatedAtDesc(ws) ==
    IF ws = <<>> THEN <<>>
    ELSE InsertByCreatedAt(SortByCreatedAtDesc(SubSeq(ws, 1, Len(ws) - 1)), ws[Len(ws)])

\* slice(0, n)
Slice(ws, n) == SubSeq(ws, 1, IF Len(ws) < n THEN Len(ws) ELSE n)

\* The object passed to setData
DashboardData(meResp, projResp, worklogLists) ==
    LET projects == ProjectsOf(projResp)
        allWorklogs == Flat(worklogLists)
        weekAgo == Today - 7
        meta == IF projResp = Null THEN Null ELSE Val(projResp).meta
    IN  [me |-> IF meResp = Null THEN Null ELSE Val(meResp).data,
         projects |-> projResp,
         recentWorklogs |-> Slice(SortByCreatedAtDesc(allWorklogs), RecentCount),
         totals |->
            [totalProjects |->
                IF meta # Null /\ Val(meta).totalItems # Null
                THEN Val(Val(meta).totalItems) ELSE Len(projects),
             worklogsThisWeek |->
                Cardinality({i \in 1..Len(allWorklogs) : allWorklogs[i].logDate >= weekAgo})]]

InitDashVars ==
    /\ dMounted = TRUE
    /\ dLoading = TRUE
    /\ dError = ""
    /\ dData = Null
    /\ dAbortRef = 0
    /\ dCtrl = <<>>

IdleDash ==
    /\ dMounted = FALSE
    /\ dLoading = TRUE
    /\ dError = ""
    /\ dData = Null
    /\ dAbortRef = 0
    /\ dCtrl = <<>>

\* abortRef.current?.abort()
DashAbortCurrent(ctrl) ==
    IF dAbortRef = 0 THEN ctrl
    ELSE [ctrl EXCEPT ![dAbortRef].aborted = TRUE]

\* A load() in flight: `me` and `projects` hold what the two requests of
\* Promise.all resolved with, `lists` what the worklog promises settled with.
\* `overlapped`, `failedAt`, `got` and `message` only record the call's history
\* (another load() ran during it, the request that made it fail, what became
\* of each worklog request, the message of the non-2xx response that made it
\* fail); the code never reads them.
NewDashController(token, overlapped) ==
    [aborted |-> FALSE, pc |-> "phase1", token |-> token, me |-> Null,
     projects |-> Null, lists |-> <<>>, overlapped |-> overlapped,
     failedAt |-> "", got |-> <<>>, message |-> Null]

Pending == [settled |-> FALSE, value |-> <<>>]
Settled(value) == [settled |-> TRUE, value |-> value]

InFlight(k) == k.pc # "done"

\* Another load() runs while these are in flight
MarkOverlapped(ctrl) ==
    [c \in 1..Len(ctrl) |->
        IF InFlight(ctrl[c]) THEN [ctrl[c] EXCEPT !.overlapped = TRUE] ELSE ctrl[c]]

\* load(): everything up to its first await
DashLoad ==
    /\ dMounted
    /\ Len(dCtrl) < MaxDashLoads
    /\ LET token == getCookie(cookie, COOKIE_ACCESS_TOKEN)
       IN  IF ~apiHost \/ Falsy(token)
           THEN /\ dLoading' = FALSE
                /\ dError' = SessionInvalid
                /\ dData' = Null
                /\ dCtrl' = MarkOverlapped(dCtrl)
                /\ UNCHANGED dAbortRef
           ELSE /\ dLoading' = TRUE
                /\ dError' = ""
                /\ dCtrl' = Append(MarkOverlapped(DashAbortCurrent(dCtrl)),
                                   NewDashController(Val(token),
                                       \E c \in 1..Len(dCtrl) : InFlight(dCtrl[c])))
                /\ dAbortRef' = Len(dCtrl) + 1
                /\ UNCHANGED dData
    /\ UNCHANGED <<dMounted, apiHost, cookie, notDash>>

\* The call has run to its end; nothing of it is read again
DashDone(k, failedAt, got) ==
    [k EXCEPT !.pc = "done", !.token = "", !.me = Null, !.projects = Null,
              !.lists = <<>>, !.failedAt = failedAt, !.got = got]

\* catch and finally blocks of load()
DashCatch(c, failedAt, got, res) ==
    /\ dError' = DashLoadFailed
    /\ dData' = Null
    /\ dLoading' = FALSE
    /\ dCtrl' = [dCtrl EXCEPT ![c] = [DashDone(dCtrl[c], failedAt, got)
                                        EXCEPT !.message = ServerMessage(res)]]

\* setData({...}) and the finally block of load()
DashCommit(c, meResp, projResp, lists, got) ==
    /\ dData' = Some(DashboardData(meResp, projResp,
                        [i \in 1..Len(lists) |-> lists[i].value]))
    /\ dLoading' = FALSE
    /\ dCtrl' = [dCtrl EXCEPT ![c] = DashDone(dCtrl[c], "", got)]
    /\ UNCHANGED dError

\* Both requests of the first Promise.all have resolved: the worklogs of each
\* project are requested; with no project the second Promise.all resolves at
\* once
DashPhase2(c, meResp, projResp) ==
    LET projects == ProjectsOf(projResp)
    IN  IF projects = <<>>
        THEN DashCommit(c, meResp, projResp, <<>>, <<>>)
        ELSE /\ dCtrl' = [dCtrl EXCEPT ![c].pc = "phase2",
                                       ![c].me = Some(meResp),
                                       ![c].projects = Some(projResp),
                                       ![c].lists = [i \in 1..Len(projects) |-> Pending],
                                       ![c].got = [i \in 1..Len(projects) |-> "pending"]]
             /\ UNCHANGED <<dLoading, dError, dData>>

\* fetchWithAuth(endpoints.me, ...) settles
DashMeSettle(c) ==
    /\ dCtrl[c].pc = "phase1"
    /\ dCtrl[c].me = Null
    /\ \E res \in (IF dCtrl[c].aborted THEN {AbortError} ELSE MeOutcomes) :
          LET f == fetchWithAuth(res)
          IN  IF f.threw THEN DashCatch(c, "me", <<>>, res)
              ELSE IF dCtrl[c].projects = Null
              THEN /\ dCtrl' = [dCtrl EXCEPT ![c].me = Some(f.value)]
                   /\ UNCHANGED <<dLoading, dError, dData>>
              ELSE DashPhase2(c, f.value, Val(dCtrl[c].projects))
    /\ UNCHANGED <<dMounted, dAbortRef, apiHost, cookie, notDash>>

\* fetchWithAuth(endpoints.projects, ...) settles
DashProjectsSettle(c) ==
    /\ dCtrl[c].pc = "phase1"
    /\ dCtrl[c].projects = Null
    /\ \E res \in (IF dCtrl[c].aborted THEN {AbortError} ELSE DashProjectsOutcomes) :
          LET f == fetchWithAuth(res)
          IN  IF f.threw THEN DashCatch(c, "projects", <<>>, res)
              ELSE IF dCtrl[c].me = Null
              THEN /\ dCtrl' = [dCtrl EXCEPT ![c].projects = Some(f.value)]
                   /\ UNCHANGED <<dLoading, dError, dData>>
              ELSE DashPhase2(c, Val(dCtrl[c].me), f.value)
    /\ UNCHANGED <<dMounted, dAbortRef, apiHost, cookie, notDash>>

\* The worklogs promise of the i-th project settles
DashWorklogsSettle(c, i) ==
    /\ dCtrl[c].pc = "phase2"
    /\ i \in 1..Len(dCtrl[c].lists)
    /\ ~dCtrl[c].lists[i].settled
    /\ LET k == dCtrl[c]
           p == ProjectsOf(Val(k.projects))[i].id
       IN  \E res \in (IF k.aborted THEN {AbortError} ELSE DashWorklogsOutcomes(p)) :
              LET f == fetchWithAuth(res)
                  w == CatchEmpty(f, p)
                  lists == [k.lists EXCEPT ![i] = Settled(w.value)]
                  got == [k.got EXCEPT ![i] = IF f.threw THEN "failed"
                                              ELSE IF f.value = Null THEN "empty"
                                              ELSE "worklogs"]
              IN  IF w.threw THEN DashCatch(c, "worklogs", got, res)
                  ELSE IF \E j \in 1..Len(lists) : ~lists[j].settled
                  THEN /\ dCtrl' = [dCtrl EXCEPT ![c].lists = lists, ![c].got = got]
                       /\ UNCHANGED <<dLoading, dError, dData>>
                  ELSE DashCommit(c, Val(k.me), Val(k.projects), lists, got)
    /\ UNCHANGED <<dMounted, dAbortRef, apiHost, cookie, notDash>>

\* The effect cleanup on unmount: abortRef.current?.abort()
DashUnmount ==
    /\ dMounted
    /\ dMounted' = FALSE
    /\ dCtrl' = DashAbortCurrent(dCtrl)
    /\ UNCHANGED <<dLoading, dError, dData, dAbortRef, apiHost, cookie, notDash>>

\* The session ends while the dashboard is open (logout in another tab, expiry)
DashSessionEnds ==
    /\ dMounted
    /\ cookie # <<>>
    /\ cookie' = <<>>
    /\ UNCHANGED <<dMounted, dLoading, dError, dData, dAbortRef, dCtrl, apiHost, notDash>>

NextDash ==
    \/ DashLoad
    \/ \E c \in 1..Len(dCtrl) : DashMeSettle(c)
    \/ \E c \in 1..Len(dCtrl) : DashProjectsSettle(c)
    \/ \E c \in 1..Len(dCtrl), i \in 1..2 : DashWorklogsSettle(c, i)
    \/ DashUnmount
    \/ DashSessionEnds

(***************************************************************************)
(* Pages: ProjectDetail.tsx, WorklogsList.tsx and WorklogDetail.tsx        *)
(***************************************************************************)
MaxPageRequests == 2    \* mutating requests a page issues while it is open

ProjectStatus_ACTIVE == "ACTIVE"
ProjectStatus_ARCHIVED == "ARCHIVED"

Pages == {"ProjectDetail", "WorklogsList", "WorklogDetail", "ProjectsList"}

\* What the pages may be opened with: a USER or an ADMIN session
PageJars ==
    { <<[name |-> "access_token", value |-> "jwt1"], [name |-> "role", value |-> "USER"]>>,
      <<[name |-> "access_token", value |-> "jwt1"], [name |-> "role", value |-> "ADMIN"]>> }

\* useProjectDetail: canManage, getRole() === Role.ADMIN
canManage == getCookie(cookie, COOKIE_ROLE) = Some("ADMIN")

\* What useProjectDetail gives a page: loading, notFound and data
PdLoading == [loading |-> TRUE, notFound |-> FALSE, project |-> Null, worklogs |-> <<>>]
PdLoaded(status, worklogs) ==
    [loading |-> FALSE, notFound |-> FALSE,
     project |-> Some([id |-> "p1", status |-> status]), worklogs |-> worklogs]
PdNotFound == [loading |-> FALSE, notFound |-> TRUE, project |-> Null, worklogs |-> <<>>]
PdFailed == [loading |-> FALSE, notFound |-> FALSE, project |-> Null, worklogs |-> <<>>]

\* What useWorklogs / useWorklogDetail give a page; `items` are the rows of
\* the list, or the one worklog of the detail page
MainLoading == [loading |-> TRUE, error |-> "", notFound |-> FALSE, items |-> <<>>]
MainLoaded(items) == [loading |-> FALSE, error |-> "", notFound |-> FALSE, items |-> items]
MainNotFound == [loading |-> FALSE, error |-> "", notFound |-> TRUE, items |-> <<>>]
MainFailed(error) == [loading |-> FALSE, error |-> error, notFound |-> FALSE, items |-> <<>>]

\* project.status === ProjectStatus.ARCHIVED / pd.project?.status === ...
archived ==
    pgPd.project # Null /\ Val(pgPd.project).status = ProjectStatus_ARCHIVED

\* A control the page renders: a link to a form, or a button that ends in a
\* request (through its confirmation dialog), with its `disabled` prop negated
Control(name, id, action, issues, enabled) ==
    [name |-> name, id |-> id, action |-> action, issues |-> issues, enabled |-> enabled]

\* ProjectDetail: nothing but navigation while loading, not found or failed
ProjectDetailControls ==
    IF pgPd.loading \/ pgPd.notFound \/ pgPd.project = Null THEN {}
    ELSE {Control("Add Worklog", "", "worklog.add", "link", ~archived)}
         \cup (IF ~archived /\ canManage
               THEN {Control("Edit", "", "project.edit", "link", TRUE),
                     Control("Archive", "", "project.archive", "request", pgBusy = "")}
               ELSE {})
         \cup (IF pgPd.worklogs = <<>>
               THEN {Control("Add worklog", "", "worklog.add", "link", TRUE)}
               ELSE {})

\* WorklogsList: the header button, then the empty state or the rows
WorklogsListControls ==
    {Control("+ Add Worklog", "", "worklog.add", "link", ~archived)}
        \cup (IF pgMain.loading \/ pgMain.error # "" THEN {}
              ELSE IF pgMain.items = <<>>
              THEN {Control("Add worklog", "", "worklog.add", "link", ~archived)}
              ELSE UNION {{Control("Edit", pgMain.items[i], "worklog.edit", "link", TRUE),
                           Control("Delete", pgMain.items[i], "worklog.delete", "request",
                                   pgBusy # pgMain.items[i])} :
                          i \in 1..Len(pgMain.items)})

\* WorklogDetail: Edit and Delete unless archived
WorklogDetailControls ==
    IF pgMain.loading \/ pgMain.notFound \/ pgMain.items = <<>> \/ archived THEN {}
    ELSE {Control("Edit", pgMain.items[1], "worklog.edit", "link", TRUE),
          Control("Delete", pgMain.items[1], "worklog.delete", "request", pgBusy = "")}

\* DeleteConfirm: busy, from its setBusy(true) to the end of onConfirm
RowBusy(id) == \E r \in 1..Len(pgSent) : pgSent[r].pending /\ pgSent[r].id = id

\* ProjectsList: Edit and Delete on every row (of the table or the cards)
ProjectsListControls ==
    IF pgMain.loading \/ pgMain.error # "" THEN {}
    ELSE UNION {{Control("Edit", pgMain.items[i], "project.edit", "link", TRUE),
                 Control("Delete", pgMain.items[i], "project.delete", "request", TRUE)} :
                i \in 1..Len(pgMain.items)}

\* The mutating controls of the page that is open
Offered ==
    CASE pgRoute # ""               -> {}
      [] pgPage = "ProjectsList"    -> ProjectsListControls
      [] pgPage = "ProjectDetail"   -> ProjectDetailControls
      [] pgPage = "WorklogsList"    -> WorklogsListControls
      [] pgPage = "WorklogDetail"   -> WorklogDetailControls

InitPageVars ==
    /\ pgPage \in Pages
    /\ pgServerStatus \in {ProjectStatus_ACTIVE, ProjectStatus_ARCHIVED}
    /\ pgPd = (IF pgPage = "ProjectsList" THEN PdFailed ELSE PdLoading)
    /\ pgMain = (IF pgPage = "ProjectDetail" THEN MainLoaded(<<>>) ELSE MainLoading)
    /\ pgBusy = ""
    /\ pgDialog = Null
    /\ pgSent = <<>>
    /\ pgRoute = ""

IdlePages ==
    /\ pgPage = "ProjectDetail"
    /\ pgServerStatus = ProjectStatus_ACTIVE
    /\ pgPd = PdLoading
    /\ pgMain = MainLoaded(<<>>)
    /\ pgBusy = ""
    /\ pgDialog = Null
    /\ pgSent = <<>>
    /\ pgRoute = "(closed)"

\* useProjectDetail's load settles
PdSettle ==
    /\ pgRoute = ""
    /\ pgPd.loading
    /\ pgPd' \in {PdLoaded(pgServerStatus, ws) : ws \in {<<>>, <<"w1">>}}
                    \cup {PdNotFound, PdFailed}
    /\ UNCHANGED <<pgPage, pgServerStatus, pgMain, pgBusy, pgDialog, pgSent, pgRoute,
                   apiHost, cookie, notPages>>

\* useWorklogs' / useWorklogDetail's load settles
MainSettle ==
    /\ pgRoute = ""
    /\ pgMain.loading
    /\ pgMain' \in
          (IF pgPage = "WorklogsList"
           THEN {MainLoaded(ws) : ws \in {<<"w1", "w2">>, <<"w1">>, <<>>}}
                    \cup {MainFailed("Gagal memuat worklogs. Coba lagi.")}
           ELSE IF pgPage = "ProjectsList"
           THEN {MainLoaded(ps) : ps \in {<<"p1", "p2">>, <<"p1">>, <<>>}}
                    \cup {MainFailed("Gagal memuat projects. Coba lagi.")}
           ELSE {MainLoaded(<<"w1">>), MainNotFound,
                 MainFailed("Gagal memuat worklog. Coba lagi.")})
    /\ UNCHANGED <<pgPage, pgServerStatus, pgPd, pgBusy, pgDialog, pgSent, pgRoute,
                   apiHost, cookie, notPages>>

\* A button that sends its request at the click, without a dialog
RequestOnClick(ctl) ==
    /\ ctl \in Offered
    /\ ctl.issues = "request"
    /\ ctl.enabled
    /\ pgDialog = Null
    /\ Len(pgSent) < MaxPageRequests
    /\ pgSent' = Append(pgSent, [action |-> ctl.action, id |-> ctl.id,
                                 pending |-> TRUE, archived |-> archived])
    /\ UNCHANGED <<pgPage, pgServerStatus, pgPd, pgMain, pgBusy, pgDialog, pgRoute,
                   apiHost, cookie, notPages>>

\* AlertDialogTrigger: a click on an enabled button opens its dialog
OpenDialog(ctl) ==
    /\ ctl \in Offered
    /\ ctl.issues = "request"
    /\ ctl.enabled
    /\ pgDialog = Null
    /\ pgDialog' = Some([name |-> ctl.name, id |-> ctl.id])
    /\ UNCHANGED <<pgPage, pgServerStatus, pgPd, pgMain, pgBusy, pgSent, pgRoute,
                   apiHost, cookie, notPages>>

\* AlertDialogCancel
CancelDialog ==
    /\ pgDialog # Null
    /\ pgDialog' = Null
    /\ UNCHANGED <<pgPage, pgServerStatus, pgPd, pgMain, pgBusy, pgSent, pgRoute,
                   apiHost, cookie, notPages>>

\* AlertDialogAction: onArchive / onDelete up to `await remove(...)`
ConfirmDialog ==
    /\ pgDialog # Null
    /\ Len(pgSent) < MaxPageRequests
    /\ \E ctl \in Offered :
          /\ ctl.name = Val(pgDialog).name
          /\ ctl.id = Val(pgDialog).id
          /\ ctl.enabled
          /\ (pgPage = "ProjectsList" => ~RowBusy(ctl.id))
          /\ pgBusy' = (CASE pgPage = "WorklogsList" -> ctl.id
                          [] pgPage = "ProjectsList" -> pgBusy
                          [] OTHER -> "deleting")
          /\ pgSent' = Append(pgSent, [action |-> ctl.action, id |-> ctl.id,
                                       pending |-> TRUE, archived |-> archived])
    /\ pgDialog' = Null
    /\ UNCHANGED <<pgPage, pgServerStatus, pgPd, pgMain, pgRoute, apiHost, cookie, notPages>>

\* `await remove(...)` settles: on success ProjectDetail and WorklogDetail
\* leave for the list, WorklogsList drops the row; the finally block clears
\* deleting / busyId
RemoveRequestSettle(r) ==
    /\ pgSent[r].pending
    /\ pgSent' = [pgSent EXCEPT ![r].pending = FALSE]
    /\ \E ok \in BOOLEAN :
          /\ pgRoute' = (IF ~ok \/ pgRoute # "" THEN pgRoute
                         ELSE IF pgPage = "ProjectDetail" THEN "/projects"
                         ELSE IF pgPage = "WorklogDetail" THEN "/projects/p1/worklogs"
                         ELSE pgRoute)
          /\ pgMain' = (IF ok /\ pgPage \in {"WorklogsList", "ProjectsList"}
                        THEN [pgMain EXCEPT !.items = SelectSeq(@, LAMBDA w : w # pgSent[r].id)]
                        ELSE pgMain)
          /\ pgServerStatus' = (IF ok /\ pgSent[r].action = "project.archive"
                                THEN ProjectStatus_ARCHIVED ELSE pgServerStatus)
    /\ pgBusy' = ""
    /\ UNCHANGED <<pgPage, pgPd, pgDialog, apiHost, cookie, notPages>>

NextPages ==
    \/ PdSettle
    \/ MainSettle
    \/ \E ctl \in Offered : OpenDialog(ctl)
    \/ CancelDialog
    \/ ConfirmDialog
    \/ \E r \in 1..Len(pgSent) : RemoveRequestSettle(r)

(***************************************************************************)
(* LoginPage (src/app/(auth)/login): onSubmit awaits useLogin's login and  *)
(* then replaces the route; the navigation passes the route guard with     *)
(* the cookies the browser holds by then.                                  *)
(***************************************************************************)
ROUTES_DASHBOARD == P_dashboard
ROUTES_ADMIN == P_admin

\* The cookie values of the hooks as the character strings the guard reads
Chars(v) ==
    CASE v = ""      -> EmptyStr
      [] v = "jwt1"  -> T_jwt \o <<"1">>
      [] v = "jwt2"  -> T_jwt \o <<"2">>
      [] v = "rt1"   -> <<"r", "t", "1">>
      [] v = "USER"  -> R_USER
      [] v = "ADMIN" -> R_ADMIN

\* req.cookies.get(name)?.value on a request of the browser: of several
\* cookies of one name the last one read wins
RequestCookie(jar, name) ==
    LET occ == {i \in 1..Len(jar) : jar[i].name = name}
    IN  IF occ = {} THEN Absent
        ELSE Chars(jar[CHOOSE i \in occ : \A j \in occ : j <= i].value)

\* The endpoint a submit hook sends its requests to
Endpoint ==
    CASE sk = "useLogin"         -> "/auth/login"
      [] sk = "useRegister"      -> "/auth/register"
      [] sk = "useCreateProject" -> "/projects"
      [] sk = "useUpdateProject" -> "/projects/:projectId"
      [] sk = "useCreateWorklog" -> "/projects/:projectId/worklogs"
      [] sk = "useUpdateWorklog" -> "/projects/:projectId/worklogs/:worklogId"

\* The page is on screen: the browser's last navigation was to /login
OnLoginPage == mwReq.pathname = P_login /\ mwResp = NextResponse_next

\* router.replace(pathname): the navigation's request, not yet at the guard
Navigate(pathname, jar) ==
    /\ mwReq' = [pathname |-> pathname, search |-> EmptyStr,
                 token |-> RequestCookie(jar, COOKIE_ACCESS_TOKEN),
                 role |-> RequestCookie(jar, COOKIE_ROLE),
                 env |-> mwReq.env]
    /\ mwResp' = NoResponse

\* onSubmit after `await login(payload)`: nothing unless login has returned
\* in this step with ok
LoginResume ==
    IF sReturned' # sReturned /\ Val(sReturned').result.ok
    THEN LET role == Val(Val(sReturned').result.data).role
         IN  Navigate(IF role = Some("ADMIN") THEN ROUTES_ADMIN ELSE ROUTES_DASHBOARD,
                      cookie')
    ELSE UNCHANGED guardVars

\* onSubmit by the "Masuk" button (disabled while isLoading): clearError(),
\* then login up to its fetch
LoginOnSubmit ==
    /\ OnLoginPage /\ ~sIsLoading
    /\ Submit
    /\ LoginResume

LoginFetchSettle(c) == SubmitFetchSettle(c) /\ LoginResume
LoginJsonSettle(c) == SubmitJsonSettle(c) /\ LoginResume

\* The page is replaced: the effect cleanup of useLogin runs
LoginPageUnmount ==
    /\ ~OnLoginPage
    /\ SubmitUnmount
    /\ UNCHANGED guardVars

NextLogin ==
    \/ LoginOnSubmit
    \/ \E c \in 1..Len(sCalls) : LoginFetchSettle(c)
    \/ \E c \in 1..Len(sCalls) : LoginJsonSettle(c)
    \/ HandleRequest
    \/ LoginPageUnmount

(***************************************************************************)
(* EditWorklogForm (worklogs/[worklogId]/edit): the form state, validate,  *)
(* onSubmit and the request useUpdateWorklog makes of its payload.  The    *)
(* summary, the blockers and the text of the number input are character    *)
(* strings, so that trim, length, Number and String are computed.          *)
(***************************************************************************)
MaxEditSubmits == 2  \* update() calls that issue a request, per form

\* ACTIVITY_OPTIONS, as AddWorklogForm lists them
ACTIVITY_OPTIONS == <<"Coding", "Code Review", "Debugging", "Research", "Meeting",
                      "Documentation", "Other">>

\* The options the user picks in the Select
ActivityInputs == {"Coding", "Meeting"}

IsSpace(c) == c \in {" ", "\t", "\n"}

\* String.prototype.trim
RECURSIVE trimStart(_)
trimStart(s) ==
    IF s # <<>> /\ IsSpace(Head(s)) THEN trimStart(Tail(s)) ELSE s

RECURSIVE trimEnd(_)
trimEnd(s) ==
    IF s # <<>> /\ IsSpace(s[Len(s)]) THEN trimEnd(SubSeq(s, 1, Len(s) - 1)) ELSE s

trim(s) == trimEnd(trimStart(s))

DecimalDigits == <<"0", "1", "2", "3", "4", "5", "6", "7", "8", "9">>

\* Number(s) for the text of a number input: "" or decimal digits
RECURSIVE Number(_)
Number(s) ==
    IF s = <<>> THEN 0
    ELSE 10 * Number(SubSeq(s, 1, Len(s) - 1))
            + ((CHOOSE d \in 1..10 : DecimalDigits[d] = s[Len(s)]) - 1)

\* String(n) for a natural number
RECURSIVE String(_)
String(n) ==
    IF n < 10 THEN <<DecimalDigits[n + 1]>>
    ELSE String(n \div 10) \o <<DecimalDigits[(n % 10) + 1]>>

S_short == <<"t", "y", "p", "o">>
S_fixed == <<"f", "i", "x", "e", "d", " ", "l", "o", "g", "i", "n">>
S_fixed_padded == <<" ">> \o S_fixed \o <<" ", "\n">>
B_none == <<>>
B_waiting == <<"w", "a", "i", "t", "i", "n", "g">>
B_long == [i \in 1..1001 |-> "b"]

\* The worklogs GET /projects/:id/worklogs/:id may return; timeSpent and
\* blockers are optional, activityType and summary may be empty
WorklogDetail(logDate, activityType, summary, timeSpent, blockers) ==
    [logDate |-> logDate, activityType |-> activityType, summary |-> summary,
     timeSpent |-> timeSpent, blockers |-> blockers]

WorklogDetails ==
    { WorklogDetail("2026-01-05", "Coding", S_fixed, Some(90), Null),
      WorklogDetail("2026-01-06", "", S_short, Null, Some(B_waiting)) }

\* What the user may put into the fields
SummaryInputs == {S_short, S_fixed_padded}
TimeSpentInputs == {<<>>, <<"0">>, <<"4", "5">>}
BlockersInputs == {B_none, B_long}

UpdateSucceeded == "Berhasil mengupdate worklog"
UpdateFailed == "Gagal mengupdate worklog. Coba lagi."
UpdateFailedStatus == "Gagal mengupdate worklog (500)."
UpdateOutcomes == {"ok", "rejected", "network"}

\* The effect on [data]: the fields take the values of the loaded worklog
FieldsOf(w) ==
    [activityType |-> IF w.activityType = "" THEN ACTIVITY_OPTIONS[1] ELSE w.activityType,
     summary |-> w.summary,
     timeSpent |-> IF w.timeSpent = Null THEN <<>> ELSE String(Val(w.timeSpent)),
     blockers |-> IF w.blockers = Null THEN <<>> ELSE Val(w.blockers)]

\* initialSnapshot
initialSnapshot ==
    IF efData = Null
    THEN [activityType |-> ACTIVITY_OPTIONS[1], summary |-> <<>>, timeSpent |-> <<>>,
          blockers |-> <<>>]
    ELSE LET f == FieldsOf(Val(efData))
         IN  [f EXCEPT !.summary = trim(f.summary), !.blockers = trim(f.blockers)]

\* dirty, as the effect on the fields leaves it
dirty ==
    [activityType |-> efActivityType, summary |-> trim(efSummary),
     timeSpent |-> efTimeSpent, blockers |-> trim(efBlockers)] # initialSnapshot

canSubmit ==
    LET s == trim(efSummary)
        summaryOk == Len(s) >= 10 /\ Len(s) <= 2000
        timeOk == efTimeSpent = <<>> \/ (Number(efTimeSpent) >= 1 /\ Number(efTimeSpent) <= 1440)
    IN  dirty /\ summaryOk /\ timeOk /\ ~efIsLoading

\* validate: the fields that get a message
validate ==
    LET s == trim(efSummary)
    IN  {f \in {"activityType"} : \A i \in 1..Len(ACTIVITY_OPTIONS) : ACTIVITY_OPTIONS[i] # efActivityType}
        \cup {f \in {"summary"} : Len(s) < 10 \/ Len(s) > 2000}
        \cup {f \in {"timeSpent"} :
                efTimeSpent # <<>> /\ (Number(efTimeSpent) < 1 \/ Number(efTimeSpent) > 1440)}
        \cup {f \in {"blockers"} : efBlockers # <<>> /\ Len(efBlockers) > 1000}

\* A payload that takes its logDate from what was typed into the date input
TypedDateUpdatePayload ==
    [logDate |-> "2026-01-07",
     activityType |-> efActivityType,
     summary |-> trim(efSummary),
     timeSpent |-> IF efTimeSpent # <<>> THEN Some(Number(efTimeSpent)) ELSE Null,
     blockers |-> IF trim(efBlockers) # <<>> THEN Some(trim(efBlockers)) ELSE Null]

\* The payload onSubmit hands to update()
UpdatePayload ==
    [logDate |-> Val(efData).logDate,
     activityType |-> efActivityType,
     summary |-> trim(efSummary),
     timeSpent |-> IF efTimeSpent # <<>> THEN Some(Number(efTimeSpent)) ELSE Null,
     blockers |-> IF trim(efBlockers) # <<>> THEN Some(trim(efBlockers)) ELSE Null]

\* update(): the body of the PUT request made of the payload
UpdateRequestBody(payload) ==
    [logDate |-> payload.logDate,
     activityType |-> payload.activityType,
     summary |-> payload.summary,
     timeSpent |-> payload.timeSpent,
     blockers |-> IF payload.blockers # Null /\ Len(trim(Val(payload.blockers))) > 0
                  THEN Some(trim(Val(payload.blockers))) ELSE Null]

InitEditVars ==
    /\ efData = Null
    /\ efActivityType = ACTIVITY_OPTIONS[1]
    /\ efSummary = <<>>
    /\ efTimeSpent = <<>>
    /\ efBlockers = <<>>
    /\ efFieldErrors = {}
    /\ efIsLoading = FALSE
    /\ efToast = ""
    /\ efSent = <<>>
    /\ efRoute = ""

IdleEdit == InitEditVars

\* The form is on screen: the worklog is loaded and the user has not left
FormShown == efData # Null /\ efRoute = ""

\* useWorklogDetail's load resolves with the worklog; the effect on [data]
\* fills the fields
EditLoadSettle ==
    /\ efData = Null /\ efRoute = ""
    /\ \E w \in WorklogDetails :
          /\ efData' = Some(w)
          /\ efActivityType' = FieldsOf(w).activityType
          /\ efSummary' = FieldsOf(w).summary
          /\ efTimeSpent' = FieldsOf(w).timeSpent
          /\ efBlockers' = FieldsOf(w).blockers
    /\ UNCHANGED <<efFieldErrors, efIsLoading, efToast, efSent, efRoute>>
    /\ UNCHANGED notEdit

\* The user picks an activity in the Select
SetActivityType ==
    /\ FormShown
    /\ efActivityType' \in ActivityInputs
    /\ UNCHANGED <<efData, efSummary, efTimeSpent, efBlockers, efFieldErrors, efIsLoading,
                   efToast, efSent, efRoute>>
    /\ UNCHANGED notEdit

\* The user types in the summary, the time or the blockers
SetSummary ==
    /\ FormShown
    /\ efSummary' \in SummaryInputs
    /\ UNCHANGED <<efData, efActivityType, efTimeSpent, efBlockers, efFieldErrors,
                   efIsLoading, efToast, efSent, efRoute>>
    /\ UNCHANGED notEdit

SetTimeSpent ==
    /\ FormShown
    /\ efTimeSpent' \in TimeSpentInputs
    /\ UNCHANGED <<efData, efActivityType, efSummary, efBlockers, efFieldErrors,
                   efIsLoading, efToast, efSent, efRoute>>
    /\ UNCHANGED notEdit

SetBlockers ==
    /\ FormShown
    /\ efBlockers' \in BlockersInputs
    /\ UNCHANGED <<efData, efActivityType, efSummary, efTimeSpent, efFieldErrors,
                   efIsLoading, efToast, efSent, efRoute>>
    /\ UNCHANGED notEdit

\* The user types in the date input: it is readOnly and its value is
\* data.logDate, so nothing changes
TypeLogDate ==
    /\ FormShown
    /\ UNCHANGED editVars
    /\ UNCHANGED notEdit

\* onSubmit, by the Save button (enabled by canSubmit): validate, then
\* update() up to its fetch
EditSubmit ==
    /\ FormShown /\ canSubmit
    /\ Len(efSent) < MaxEditSubmits
    /\ efFieldErrors' = validate
    /\ IF validate # {}
       THEN UNCHANGED <<efIsLoading, efToast, efSent>>
       ELSE IF ~apiHost
       THEN efToast' = ConfigOrParamsInvalid /\ UNCHANGED <<efIsLoading, efSent>>
       ELSE IF Falsy(getCookie(cookie, COOKIE_ACCESS_TOKEN))
       THEN efToast' = SessionInvalid /\ UNCHANGED <<efIsLoading, efSent>>
       ELSE /\ efIsLoading' = TRUE
            /\ efSent' = Append(efSent, UpdateRequestBody(UpdatePayload))
            /\ UNCHANGED efToast
    /\ UNCHANGED <<efData, efActivityType, efSummary, efTimeSpent, efBlockers, efRoute>>
    /\ UNCHANGED notEdit

\* The PUT request settles: update() returns and onSubmit goes on
EditUpdateSettle ==
    /\ efIsLoading /\ efRoute = ""
    /\ efIsLoading' = FALSE
    /\ \E outcome \in UpdateOutcomes :
          CASE outcome = "ok" ->
                 /\ efToast' = UpdateSucceeded
                 /\ efRoute' = "/projects/p1/worklogs/w1"
            [] outcome = "rejected" ->
                 efToast' = UpdateFailedStatus /\ UNCHANGED efRoute
            [] outcome = "network" ->
                 efToast' = UpdateFailed /\ UNCHANGED efRoute
    /\ UNCHANGED <<efData, efActivityType, efSummary, efTimeSpent, efBlockers, efFieldErrors,
                   efSent>>
    /\ UNCHANGED notEdit

\* The Cancel link: back to the worklog; the unmount aborts a request in flight
EditCancel ==
    /\ FormShown
    /\ efRoute' = "/projects/p1/worklogs/w1"
    /\ efIsLoading' = FALSE
    /\ UNCHANGED <<efData, efActivityType, efSummary, efTimeSpent, efBlockers, efFieldErrors,
                   efToast, efSent>>
    /\ UNCHANGED notEdit

NextEdit ==
    \/ EditLoadSettle
    \/ SetActivityType
    \/ SetSummary
    \/ SetTimeSpent
    \/ SetBlockers
    \/ TypeLogDate
    \/ EditSubmit
    \/ EditUpdateSettle
    \/ EditCancel
(***************************************************************************)
(* AddWorklogForm (worklogs/add): the form state, the conflict check of    *)
(* the selected date (runDateCheck, useCreateWorklog.checkConflict),       *)
(* validate, onSubmit and the request useCreateWorklog.create makes.       *)
(***************************************************************************)
MaxDateChecks == 3  \* checkConflict calls that issue a request, per form
MaxCreates == 1     \* create() calls that issue a request, per form

\* formatToday()
formatToday == "2026-01-05"

\* What the date input may be set to: cleared, today, another day
LogDateInputs == {"", "2026-01-05", "2026-01-06"}
AddSummaryInputs == {S_short, S_fixed_padded}
AddTimeSpentInputs == {<<>>, <<"0">>}
AddBlockersInputs == {B_none, B_waiting}

\* What GET ...?fromDate=d&toDate=d&limit=1 settles with: a JSON list with
\* or without a worklog, a non-JSON response, a body that does not parse
\* or a network failure
CheckOutcomes == {"found", "none", "notJson", "unparsable", "network"}

\* checkConflict's result for an outcome: (body?.data || []).length > 0,
\* false for everything that is not a JSON list
Used(outcome) == outcome = "found"

\* useMemo canSubmit
AddCanSubmit ==
    /\ ~afIsLoading /\ ~afDateUsed
    /\ Len(trim(afSummary)) >= 10 /\ Len(trim(afSummary)) <= 2000

\* validate: the fields that get a message
AddValidate ==
    LET s == trim(afSummary)
    IN  {f \in {"logDate"} : afLogDate = ""}
        \cup {f \in {"activityType"} :
                \A i \in 1..Len(ACTIVITY_OPTIONS) : ACTIVITY_OPTIONS[i] # afActivityType}
        \cup {f \in {"summary"} : Len(s) < 10 \/ Len(s) > 2000}
        \cup {f \in {"timeSpent"} :
                afTimeSpent # <<>> /\ (Number(afTimeSpent) < 1 \/ Number(afTimeSpent) > 1440)}
        \cup {f \in {"blockers"} : afBlockers # <<>> /\ Len(afBlockers) > 1000}

\* The payload onSubmit hands to create()
CreatePayload ==
    [logDate |-> afLogDate,
     activityType |-> afActivityType,
     summary |-> trim(afSummary),
     timeSpent |-> IF afTimeSpent # <<>> THEN Some(Number(afTimeSpent)) ELSE Null,
     blockers |-> IF trim(afBlockers) # <<>> THEN Some(trim(afBlockers)) ELSE Null]

\* create(): the body of the POST request made of the payload
CreateRequestBody(payload) ==
    [logDate |-> payload.logDate,
     activityType |-> payload.activityType,
     summary |-> payload.summary,
     timeSpent |-> payload.timeSpent,
     blockers |-> IF payload.blockers # Null /\ Len(trim(Val(payload.blockers))) > 0
                  THEN Some(trim(Val(payload.blockers))) ELSE Null]

InitAddVars ==
    /\ afMounted = FALSE
    /\ afLogDate = formatToday
    /\ afActivityType = ACTIVITY_OPTIONS[1]
    /\ afSummary = <<>>
    /\ afTimeSpent = <<>>
    /\ afBlockers = <<>>
    /\ afFieldErrors = {}
    /\ afDateUsed = FALSE
    /\ afCheckingDate = FALSE
    /\ afChecks = <<>>
    /\ afIsLoading = FALSE
    /\ afSent = <<>>
    /\ afRoute = ""

IdleAdd == InitAddVars

\* A check that has settled keeps its date and its result
DateCheck(date, pc, used) == [date |-> date, pc |-> pc, used |-> used]

\* runDateCheck(dateStr) up to `await checkConflict(dateStr)`; a
\* checkConflict that returns without a request (no API host, no token)
\* resolves with false at once
runDateCheck(dateStr) ==
    IF dateStr = ""
    THEN UNCHANGED <<afDateUsed, afCheckingDate, afChecks>>
    ELSE IF ~apiHost \/ Falsy(getCookie(cookie, COOKIE_ACCESS_TOKEN))
    THEN /\ afChecks' = Append(afChecks, DateCheck(dateStr, "done", FALSE))
         /\ afDateUsed' = FALSE
         /\ afCheckingDate' = FALSE
    ELSE /\ afChecks' = Append(afChecks, DateCheck(dateStr, "fetch", FALSE))
         /\ afCheckingDate' = TRUE
         /\ UNCHANGED afDateUsed

\* The form is on screen
AddFormShown == afMounted /\ afRoute = ""

\* The page opens: the effect on [logDate, runDateCheck] runs for today
AddMount ==
    /\ ~afMounted /\ afRoute = ""
    /\ afMounted' = TRUE
    /\ runDateCheck(afLogDate)
    /\ UNCHANGED <<afLogDate, afActivityType, afSummary, afTimeSpent, afBlockers,
                   afFieldErrors, afIsLoading, afSent, afRoute>>
    /\ UNCHANGED notAdd

\* The user picks a date; the effect runs the check for it
SetLogDate ==
    /\ AddFormShown
    /\ Len(afChecks) < MaxDateChecks
    /\ \E d \in LogDateInputs \ {afLogDate} :
          /\ afLogDate' = d
          /\ runDateCheck(d)
    /\ UNCHANGED <<afMounted, afActivityType, afSummary, afTimeSpent, afBlockers,
                   afFieldErrors, afIsLoading, afSent, afRoute>>
    /\ UNCHANGED notAdd

\* `await checkConflict(dateStr)` resolves: setDateUsed(used),
\* setCheckingDate(false)
DateCheckSettle(k) ==
    /\ afMounted
    /\ afChecks[k].pc = "fetch"
    /\ \E outcome \in CheckOutcomes :
          /\ afChecks' = [afChecks EXCEPT ![k] = DateCheck(@.date, "done", Used(outcome))]
          /\ afDateUsed' = Used(outcome)
    /\ afCheckingDate' = FALSE
    /\ UNCHANGED <<afMounted, afLogDate, afActivityType, afSummary, afTimeSpent, afBlockers,
                   afFieldErrors, afIsLoading, afSent, afRoute>>
    /\ UNCHANGED notAdd

\* The user picks an activity or types in the summary, the time or the
\* blockers
SetAddActivityType ==
    /\ AddFormShown
    /\ afActivityType' \in ActivityInputs
    /\ UNCHANGED <<afMounted, afLogDate, afSummary, afTimeSpent, afBlockers, afFieldErrors,
                   afDateUsed, afCheckingDate, afChecks, afIsLoading, afSent, afRoute>>
    /\ UNCHANGED notAdd

SetAddSummary ==
    /\ AddFormShown
    /\ afSummary' \in AddSummaryInputs
    /\ UNCHANGED <<afMounted, afLogDate, afActivityType, afTimeSpent, afBlockers,
                   afFieldErrors, afDateUsed, afCheckingDate, afChecks, afIsLoading, afSent,
                   afRoute>>
    /\ UNCHANGED notAdd

SetAddTimeSpent ==
    /\ AddFormShown
    /\ afTimeSpent' \in AddTimeSpentInputs
    /\ UNCHANGED <<afMounted, afLogDate, afActivityType, afSummary, afBlockers,
                   afFieldErrors, afDateUsed, afCheckingDate, afChecks, afIsLoading, afSent,
                   afRoute>>
    /\ UNCHANGED notAdd

SetAddBlockers ==
    /\ AddFormShown
    /\ afBlockers' \in AddBlockersInputs
    /\ UNCHANGED <<afMounted, afLogDate, afActivityType, afSummary, afTimeSpent,
                   afFieldErrors, afDateUsed, afCheckingDate, afChecks, afIsLoading, afSent,
                   afRoute>>
    /\ UNCHANGED notAdd

\* onSubmit, by the Save button (enabled by canSubmit): validate, the
\* dateUsed check, then create() up to its fetch
AddSubmit ==
    /\ AddFormShown /\ AddCanSubmit
    /\ Len(afSent) < MaxCreates
    /\ afFieldErrors' = AddValidate
    /\ IF AddValidate # {} \/ afDateUsed
          \/ ~apiHost \/ Falsy(getCookie(cookie, COOKIE_ACCESS_TOKEN))
       THEN UNCHANGED <<afIsLoading, afSent>>
       ELSE /\ afIsLoading' = TRUE
            /\ afSent' = Append(afSent, CreateRequestBody(CreatePayload))
    /\ UNCHANGED <<afMounted, afLogDate, afActivityType, afSummary, afTimeSpent, afBlockers,
                   afDateUsed, afCheckingDate, afChecks, afRoute>>
    /\ UNCHANGED notAdd

\* The POST request settles: create() returns and onSubmit goes on
CreateSettle ==
    /\ afIsLoading /\ afRoute = ""
    /\ afIsLoading' = FALSE
    /\ \E ok \in BOOLEAN :
          afRoute' = (IF ok THEN "/projects/p1/worklogs" ELSE afRoute)
    /\ UNCHANGED <<afMounted, afLogDate, afActivityType, afSummary, afTimeSpent, afBlockers,
                   afFieldErrors, afDateUsed, afCheckingDate, afChecks, afSent>>
    /\ UNCHANGED notAdd

\* The Cancel link: back to the list; the unmount aborts a create in flight
AddCancel ==
    /\ AddFormShown
    /\ afRoute' = "/projects/p1/worklogs"
    /\ afMounted' = FALSE
    /\ afIsLoading' = FALSE
    /\ UNCHANGED <<afLogDate, afActivityType, afSummary, afTimeSpent, afBlockers,
                   afFieldErrors, afDateUsed, afCheckingDate, afChecks, afSent>>
    /\ UNCHANGED notAdd

NextAdd ==
    \/ AddMount
    \/ SetLogDate
    \/ \E k \in 1..Len(afChecks) : DateCheckSettle(k)
    \/ SetAddActivityType
    \/ SetAddSummary
    \/ SetAddTimeSpent
    \/ SetAddBlockers
    \/ AddSubmit
    \/ CreateSettle
    \/ AddCancel

(***************************************************************************)
(* Specifications: one per part of the program; the parts a specification  *)
(* does not exercise stay in their initial state.                          *)
(***************************************************************************)
\* The forms and pages added to the hooks
IdleForms == IdleEdit /\ IdleAdd

IdleGuard ==
    /\ mwReq = [pathname |-> P_root, search |-> EmptyStr, token |-> Absent,
                role |-> Absent, env |-> Absent]
    /\ mwResp = NoResponse

InitGuard == InitGuardVars /\ IdleBrowser /\ IdleHook /\ IdleSubmit /\ IdleDash /\ IdlePages /\ IdleForms
NextGuard == HandleRequest
SpecGuard == InitGuard /\ [][NextGuard]_vars

InitHook == InitHookVars /\ InitBrowser /\ IdleGuard /\ IdleSubmit /\ IdleDash /\ IdlePages /\ IdleForms
SpecHook == InitHook /\ [][NextHook]_vars

InitList ==
    /\ InitHookVars /\ IsListHook
    /\ apiHost \in BOOLEAN /\ cookie \in SessionJars
    /\ IdleGuard /\ IdleSubmit /\ IdleDash /\ IdlePages /\ IdleForms
SpecList == InitList /\ [][NextList]_vars

InitSubmit == InitSubmitVars /\ InitBrowser /\ IdleGuard /\ IdleHook /\ IdleDash /\ IdlePages /\ IdleForms
SpecSubmit == InitSubmit /\ [][NextSubmit]_vars

InitDash == InitDashVars /\ InitBrowser /\ IdleGuard /\ IdleHook /\ IdleSubmit /\ IdlePages /\ IdleForms
SpecDash == InitDash /\ [][NextDash]_vars

InitPages ==
    /\ InitPageVars /\ apiHost = TRUE /\ cookie \in PageJars
    /\ IdleGuard /\ IdleHook /\ IdleSubmit /\ IdleDash /\ IdleForms
SpecPages == InitPages /\ [][NextPages]_vars

\* LoginPage as the guard served it to a browser with any cookies
InitLogin ==
    /\ InitSubmitVars /\ sk = "useLogin"
    /\ InitBrowser
    /\ \E env \in LoginEnvs :
          mwReq = [pathname |-> P_login, search |-> EmptyStr,
                   token |-> RequestCookie(cookie, COOKIE_ACCESS_TOKEN),
                   role |-> RequestCookie(cookie, COOKIE_ROLE), env |-> env]
    /\ mwResp = middleware(mwReq)
    /\ IdleHook /\ IdleDash /\ IdlePages /\ IdleForms
SpecLogin == InitLogin /\ [][NextLogin]_vars

InitEdit ==
    /\ InitEditVars /\ apiHost \in BOOLEAN /\ cookie \in SessionJars
    /\ IdleGuard /\ IdleHook /\ IdleSubmit /\ IdleDash /\ IdlePages /\ IdleAdd
SpecEdit == InitEdit /\ [][NextEdit]_vars

InitAdd ==
    /\ InitAddVars /\ apiHost \in BOOLEAN /\ cookie \in SessionJars
    /\ IdleGuard /\ IdleHook /\ IdleSubmit /\ IdleDash /\ IdlePages /\ IdleEdit
SpecAdd == InitAdd /\ [][NextAdd]_vars

\* One hook of any kind (list, detail, submit or dashboard) in a browser
\* session that may end
InitSession == InitHook \/ InitSubmit \/ InitDash
NextSession == NextHook \/ NextSubmit \/ NextDash
SpecSession == InitSession /\ [][NextSession]_vars

(***************************************************************************)
(* Claims about the route guard                                            *)
(***************************************************************************)

\* pathname.startsWith(p) for one of the five guarded prefixes
HasGuardedPrefix(pathname) ==
    \E i \in 1..Len(matcherPrefixes) : startsWith(pathname, matcherPrefixes[i])

Answered == mwResp # NoResponse

\* C1: a request whose path starts with a guarded prefix (/dashboard, /projects,
\* /worklogs, /settings, /admin) and whose access_token cookie is absent or
\* empty is answered with a redirect to the login path (/login unless the
\* environment names another), never let through, whatever the role cookie holds.
C1_NoTokenRedirectsToLogin ==
    (Answered /\ HasGuardedPrefix(mwReq.pathname) /\ mwReq.token \in {Absent, EmptyStr})
        => /\ mwResp.kind = "redirect"
           /\ mwResp.pathname = (IF mwReq.env \in {Absent, EmptyStr} THEN P_login ELSE mwReq.env)

C1_Witness ==
    /\ Answered
    /\ mwReq.pathname = P_admin_users
    /\ mwReq.token = Absent
    /\ mwReq.role = R_ADMIN
    /\ mwReq.env = Absent
    /\ mwResp.kind = "redirect"
    /\ mwResp.pathname = P_login

\* C2: with a token present the guard separates the roles.  A request is let
\* through to a path under /admin only when the upper-cased role cookie is
\* ADMIN and to a user page (/dashboard, /projects, /worklogs, /settings) only
\* when it is USER; a USER asking for an admin page is redirected to
\* /dashboard, an ADMIN asking for a user page to /admin, any other role to the
\* login path.  Every path under a guarded prefix is one the guard runs for.
C2_RoleSeparation ==
    Answered =>
        LET pathname == mwReq.pathname
            role == toUpperCase(OrEmpty(mwReq.role))
            hasToken == mwReq.token \notin {Absent, EmptyStr}
            isAdminPage == startsWith(pathname, P_admin)
            isUserPage == \E i \in 1..Len(dashboardGroupPrefixes) :
                              startsWith(pathname, dashboardGroupPrefixes[i])
            loginPath == IF mwReq.env \in {Absent, EmptyStr} THEN P_login ELSE mwReq.env
        IN  /\ (isAdminPage /\ mwResp.kind = "next") => (role = R_ADMIN /\ hasToken)
            /\ (isUserPage /\ mwResp.kind = "next") => (role = R_USER /\ hasToken)
            /\ (hasToken /\ isAdminPage /\ role = R_USER)
                  => (mwResp.kind = "redirect" /\ mwResp.pathname = P_dashboard)
            /\ (hasToken /\ isUserPage /\ role = R_ADMIN)
                  => (mwResp.kind = "redirect" /\ mwResp.pathname = P_admin)
            /\ (hasToken /\ (isAdminPage \/ isUserPage) /\ role \notin {R_USER, R_ADMIN})
                  => (mwResp.kind = "redirect" /\ mwResp.pathname = loginPath)
            /\ (\E i \in 1..Len(matcherPrefixes) : Under(pathname, matcherPrefixes[i]))
                  => config_matcher(pathname)

C2_Witness ==
    /\ Answered
    /\ mwReq.pathname = P_projects_1
    /\ mwReq.token = T_jwt
    /\ mwReq.role = R_admin
    /\ mwResp.kind = "redirect"
    /\ mwResp.pathname = P_admin

(***************************************************************************)
(* Claims about the list and detail hooks                                  *)
(***************************************************************************)
\* C3: in useProjects, useWorklogs, useProjectDetail and useWorklogDetail, once
\* a newer load has issued its request, a step of any earlier load (its
\* success, 404, error or abort) changes none of data, error, notFound and
\* loading: only the most recently issued request commits state.
C3_StaleLoadCommitsNothing ==
    [][\A c \in 1..Len(hCtrl) :
          (c < Len(hCtrl) /\ hCtrl'[c].pc # hCtrl[c].pc) => UNCHANGED hookState]_vars

C3_Witness ==
    \E c \in 1..Len(hCtrl) :
        /\ c < Len(hCtrl)
        /\ hCtrl[c].pc = "done"
        /\ hCtrl[c].superseded
        /\ hCtrl[Len(hCtrl)].pc = "fetch"
        /\ ~hCtrl[Len(hCtrl)].aborted
        /\ hLoading
        /\ hError = ""

\* The requests of this hook instance that are in flight and not aborted
InFlightUnaborted ==
    Cardinality({c \in 1..Len(hCtrl) : hCtrl[c].pc # "done" /\ ~hCtrl[c].aborted})
        + Cardinality({r \in 1..Len(hRemoves) : hRemoves[r].pc = "fetch"})

\* C6: issuing a request first aborts the hook instance's previous one, so at
\* most one un-aborted request per hook instance is in flight at any time,
\* loads and deletes (remove) alike.
C6_AtMostOneRequestInFlight == InFlightUnaborted <= 1

\* C8: when remove(id) of useProjects or useWorklogs resolves with ok = true,
\* the local data holds no item with that id, keeps every other item in its
\* order, has meta.totalItems = max(0, previous totalItems - 1) and
\* meta.totalPages = max(1, ceil(new totalItems / limit)), and no request has
\* been issued by that step.
C8_OptimisticDelete ==
    [][\A r \in 1..Len(hRemoves) :
          (/\ IsListHook
           /\ hRemoves[r].pc = "fetch"
           /\ hRemoves'[r].pc = "done"
           /\ Val(hReturned').result.ok)
          => /\ hCtrl' = hCtrl
             /\ Len(hRemoves') = Len(hRemoves)
             /\ (hData = Null) = (hData' = Null)
             /\ hData # Null =>
                   LET before == Val(hData)
                       after == Val(hData')
                       id == hRemoves[r].id
                   IN  /\ \A i \in 1..Len(after.data) : after.data[i] # id
                       /\ after.data = SelectSeq(before.data, LAMBDA x : x # id)
                       /\ (before.meta = Null) = (after.meta = Null)
                       /\ before.meta # Null =>
                             LET m == Val(before.meta)
                                 n == Val(after.meta)
                             IN  m.totalItems # Null =>
                                   /\ n.totalItems =
                                         Some(IF Val(m.totalItems) - 1 > 0
                                              THEN Val(m.totalItems) - 1 ELSE 0)
                                   /\ m.limit # Null =>
                                         \E pages \in 1..(Val(m.totalItems) + 1) :
                                            /\ n.totalPages = Some(pages)
                                            /\ pages * Val(m.limit) >= Val(n.totalItems)
                                            /\ \/ pages = 1
                                               \/ (pages - 1) * Val(m.limit)
                                                      < Val(n.totalItems)]_vars

C8_Witness ==
    /\ IsListHook
    /\ hReturned # Null
    /\ Val(hReturned).result.ok
    /\ hRemoves[Val(hReturned).call].id = "i1"
    /\ hData # Null
    /\ Val(hData).data = <<"i2">>
    /\ Val(hData).meta = Some(Meta(Some(1), Some(2), Some(2), Some(1)))


(***************************************************************************)
(* Claims about the session token, for every hook                          *)
(***************************************************************************)

\* getCookie(COOKIE.ACCESS_TOKEN) now, and whether it is absent or empty
TokenNow == getCookie(cookie, COOKIE_ACCESS_TOKEN)
NoToken == TokenNow = Null \/ Val(TokenNow) = ""

\* The bearer tokens of the requests this step issues as the first request of
\* a call: load(), remove(), a submit of a project or worklog hook, and the
\* two requests of the dashboard's load()
FirstTokens ==
    (IF Len(hCtrl') > Len(hCtrl) THEN {hCtrl'[Len(hCtrl')].token} ELSE {})
        \cup (IF Len(hRemoves') > Len(hRemoves) /\ hRemoves'[Len(hRemoves')].pc = "fetch"
              THEN {hRemoves'[Len(hRemoves')].token} ELSE {})
        \cup (IF Len(sCalls') > Len(sCalls) /\ ~IsAuthHook
              THEN {sCalls'[Len(sCalls')].token} ELSE {})
        \cup (IF Len(dCtrl') > Len(dCtrl) THEN {dCtrl'[Len(dCtrl')].token} ELSE {})

\* ... and of the requests a load() issues after its first await: the
\* worklogs preview of useProjectDetail, the per-project worklogs of the
\* dashboard
FollowUpTokens ==
    {hCtrl[c].token : c \in {n \in 1..Len(hCtrl) :
                                hCtrl[n].pc = "fetch" /\ hCtrl'[n].pc = "worklogs"}}
        \cup {dCtrl[c].token : c \in {n \in 1..Len(dCtrl) :
                                dCtrl[n].pc = "phase1" /\ dCtrl'[n].pc = "phase2"}}

LoadRefused ==
    /\ hLoading' = FALSE /\ hError' = SessionInvalid /\ hData' = NullData
    /\ hCtrl' = hCtrl

RemoveRefused ==
    /\ hReturned' # Null
    /\ Val(hReturned').result = Result(FALSE, SessionInvalid)
    /\ hRemoves'[Len(hRemoves')].pc = "done"

SubmitRefused ==
    /\ sReturned' # Null
    /\ Val(sReturned').result = SubmitResult(FALSE, SessionInvalid, Null)
    /\ sCalls' = sCalls

DashLoadRefused ==
    /\ dLoading' = FALSE /\ dError' = SessionInvalid /\ dData' = Null
    /\ Len(dCtrl') = Len(dCtrl)

\* C12 as stated: no request to an authenticated endpoint is issued while the
\* access_token cookie is absent or empty, every request bears the token the
\* cookie holds, and a call made without a token is refused with the
\* session-invalid error (a load also ends with loading=false and data cleared).
C12_NoRequestWithoutToken ==
    [][/\ \A t \in FirstTokens \cup FollowUpTokens : t # "" /\ TokenNow = Some(t)
       /\ NoToken =>
             /\ Load => LoadRefused
             /\ (\E id \in ItemIds : Remove(id)) => RemoveRefused
             /\ (Submit /\ ~IsAuthHook) => SubmitRefused
             /\ DashLoad => DashLoadRefused]_vars

\* C12 amended: a call made while the cookie is absent or empty issues no
\* request, and is refused with the session-invalid error when its route
\* parameters are present (and, for a submit, the API host is configured);
\* the first request of a call bears the token the cookie holds then, a
\* follow-up request of the same load() bears the token that load() read,
\* even when the cookie has gone meanwhile.
C12_NoCallIssuesRequestWithoutToken ==
    [][/\ \A t \in FirstTokens : t # "" /\ TokenNow = Some(t)
       /\ \A t \in FollowUpTokens : t # ""
       /\ NoToken =>
             /\ FirstTokens = {}
             /\ (Load /\ ParamsValid) => LoadRefused
             /\ (ParamsValid /\ \E id \in ItemIds : Remove(id)) => RemoveRefused
             /\ (Submit /\ ~IsAuthHook /\ apiHost /\ sParams) => SubmitRefused
             /\ DashLoad => DashLoadRefused]_vars

\* useCreateProject has sent one request with the token, the session has
\* ended, and the next create() was refused without a request
C12_Witness ==
    /\ sk = "useCreateProject"
    /\ NoToken
    /\ Len(sCalls) = 1
    /\ sReturned # Null
    /\ Val(sReturned).call = 0
    /\ Val(sReturned).result = SubmitResult(FALSE, SessionInvalid, Null)
    /\ sError = SessionInvalid

(***************************************************************************)
(* Claims about the submit hooks                                           *)
(***************************************************************************)

\* The call c ends in this step
SubmitEnds(c) == sCalls[c].pc # "done" /\ sCalls'[c].pc = "done"

\* C5: in the six submit hooks, a submit that a newer submit has superseded
\* (and so aborted) never changes the hook state when it ends: isLoading stays
\* as it is (true until the newest request settles) and error is not set.
C5_AbortedSubmitChangesNothing ==
    [][\A c \in 1..Len(sCalls) :
          (c < Len(sCalls) /\ SubmitEnds(c)) => UNCHANGED submitState]_vars

IsProjectOrWorklogSubmit ==
    sk \in {"useCreateProject", "useUpdateProject", "useCreateWorklog", "useUpdateWorklog"}

\* The strings a hook uses when the server gave no message
GenericFallbacks(status) == {SubmitFailedStatus(status), SubmitFailed}

\* What C10 asks of a call that ends having received the response r.res
SurfacesResponse(r, error) ==
    /\ (r.res # Null /\ ~ResOk(Val(r.res).status)) =>
          LET res == Val(r.res)
              message == IF res.isJson /\ res.parses THEN MessageOf(res.json) ELSE Null
          IN  /\ ~r.result.ok
              /\ IF ~Falsy(message) THEN r.result.error = Val(message)
                 ELSE r.result.error \in GenericFallbacks(res.status)
              /\ error = r.result.error
    /\ r.result.ok => (r.res # Null /\ ResOk(Val(r.res).status))

\* C10 as stated: in useCreateProject, useUpdateProject, useCreateWorklog and
\* useUpdateWorklog every call that received a non-2xx response returns
\* ok=false with the server's message when the JSON body has a non-empty one
\* and a generic fallback otherwise, the error state being set to that string;
\* ok=true is returned only for a 2xx response.
C10_NonOkSurfacesMessage ==
    [][\A c \in 1..Len(sCalls) :
          (IsProjectOrWorklogSubmit /\ SubmitEnds(c))
              => SurfacesResponse(Val(sReturned'), sError')]_vars

\* C10 amended: the same, for a call whose request was not aborted before its
\* body was read (an aborted call returns ok=false with "Dibatalkan." and
\* leaves the error state alone).
C10_NonOkSurfacesMessageUnlessAborted ==
    [][\A c \in 1..Len(sCalls) :
          (IsProjectOrWorklogSubmit /\ SubmitEnds(c))
              => IF sCalls[c].aborted
                 THEN /\ Val(sReturned').result = SubmitResult(FALSE, Cancelled, Null)
                      /\ sError' = sError
                 ELSE SurfacesResponse(Val(sReturned'), sError')]_vars

\* A call of useUpdateWorklog that was not aborted has returned the message of
\* a 400 response, and the error state holds it
C10_Witness ==
    /\ sk = "useUpdateWorklog"
    /\ sReturned # Null
    /\ Val(sReturned).call > 0
    /\ ~sCalls[Val(sReturned).call].aborted
    /\ Val(sReturned).res = Some(Response(400, TRUE, TRUE,
                                 Some(Json(FALSE, Some("server says no"), Null, Null))))
    /\ Val(sReturned).result = SubmitResult(FALSE, "server says no", Null)
    /\ sError = "server says no"


(***************************************************************************)
(* Claims about the dashboard hook                                         *)
(***************************************************************************)

\* The load c moves on in this step
DashMoves(c) == dCtrl'[c].pc # dCtrl[c].pc

\* The load c ends in this step
DashEnds(c) == dCtrl[c].pc # "done" /\ dCtrl'[c].pc = "done"

\* C4: once reload has issued a newer load, no step of an earlier load of
\* useDashboardData (its completion, failure or abort) changes loading, error
\* or data.
C4_SupersededDashLoadCommitsNothing ==
    [][\A c \in 1..Len(dCtrl) :
          (c < Len(dCtrl) /\ DashMoves(c)) => UNCHANGED dashState]_vars

\* The ids of the worklogs of project p among ws
IdsOf(ws, p) == {ws[i].id : i \in {j \in 1..Len(ws) : ws[j].projectId = p}}

\* The worklogs a load that ended in setData had been given: those of the
\* projects whose request returned worklogs
Contributed(k, projects) ==
    UNION {{[id |-> WorklogsOfProject(projects[i].id)[j].id, projectId |-> projects[i].id,
             logDate |-> WorklogsOfProject(projects[i].id)[j].logDate] : j \in 1..3} :
           i \in {n \in 1..Len(projects) : k.got[n] = "worklogs"}}

C7_ArchivedIsReadOnly ==
    archived => \A ctl \in Offered : ctl.issues = "request" => ~ctl.enabled


\* C16: a DELETE request (project delete or archive, worklog delete) goes out
\* only in a step that confirms the open dialog of that very item and action;
\* opening a dialog or cancelling it sends nothing
C16_DeleteOnlyOnConfirm ==
    [][/\ pgSent' # pgSent /\ Len(pgSent') > Len(pgSent) =>
             /\ pgDialog # Null /\ pgDialog' = Null
             /\ Len(pgSent') = Len(pgSent) + 1
             /\ pgSent'[Len(pgSent')].id = Val(pgDialog).id
             /\ pgSent'[Len(pgSent')].action =
                    (CASE Val(pgDialog).name = "Archive" -> "project.archive"
                       [] pgPage = "ProjectsList"         -> "project.delete"
                       [] OTHER                           -> "worklog.delete")
       /\ (pgDialog = Null /\ pgDialog' # Null) => pgSent' = pgSent
       /\ CancelDialog => pgSent' = pgSent]_vars

\* The dialog of project p1 was confirmed and the dialog of p2 is open: one
\* request, for p1
C16_Witness ==
    /\ pgPage = "ProjectsList"
    /\ Len(pgSent) = 1 /\ pgSent[1].id = "p1" /\ pgSent[1].action = "project.delete"
    /\ pgDialog # Null /\ Val(pgDialog).id = "p2"

\* C11: when the current load (the latest, not aborted) ends on a non-2xx
\* response that carries a server message, the error state is that message;
\* shown on useDashboardData, whose catch block is that of the other hooks.
C11_LoadErrorSurfacesServerMessage ==
    [][\A c \in 1..Len(dCtrl) :
          (DashEnds(c) /\ dAbortRef = c /\ ~dCtrl[c].aborted /\ dCtrl'[c].message # Null)
              => dError' = Val(dCtrl'[c].message)]_vars

(***************************************************************************)
(* Claims about remove() of the list hooks                                 *)
(***************************************************************************)
\* A remove() call returns in this step
RemoveReturns == hReturned' # hReturned

\* The response is a 2xx whose body does not carry success=false
DeleteAccepted(res) ==
    /\ res # Null
    /\ Val(res).kind = "http"
    /\ Val(res).status \in 200..299
    /\ ~(Val(res).json # Null /\ Val(Val(res).json).success = FALSE)

\* The item is among the rows of data
InData(id, d) == d # Null /\ \E i \in 1..Len(Val(d).data) : Val(d).data[i] = id

\* C17: a remove() of useProjects or useWorklogs that fails (no token, non-2xx,
\* 2xx with success=false, network error) returns ok=false and leaves data
\* and loading as they were; it returns ok=true only for a 2xx response whose
\* body does not carry success=false
C17_RemoveFailureChangesNothing ==
    [][RemoveReturns =>
          LET result == Val(hReturned').result
          IN  /\ result.ok <=> DeleteAccepted(hRemoveRes')
              /\ ~result.ok => hData' = hData /\ hLoading' = hLoading]_vars

\* A DELETE of a row that data shows was answered 200 with success=false
C17_Witness ==
    /\ hReturned # Null /\ ~Val(hReturned).result.ok
    /\ hRemoveRes # Null /\ Val(hRemoveRes).kind = "http" /\ Val(hRemoveRes).status = 200
    /\ \E r \in 1..Len(hRemoves) : InData(hRemoves[r].id, hData)

\* C18: the response of a load that was in flight when remove(id) returned
\* ok=true does not bring the item id back into data
C18_DeletedStaysDeleted ==
    [][\A c \in 1..Len(hCtrl) :
          (hCtrl[c].pc # "done" /\ hCtrl'[c].pc = "done")
              => \A id \in hDeletedSince[c] : ~InData(id, hData')]_vars

\* C19: whenever data has meta with a page and a totalPages, the page is not
\* beyond the last page
C19_PageWithinTotalPages ==
    (hData # Null /\ Val(hData).meta # Null) =>
        LET m == Val(Val(hData).meta)
        IN  (m.page # Null /\ m.totalPages # Null) => Val(m.page) <= Val(m.totalPages)

(***************************************************************************)
(* Claims about EditWorklogForm                                            *)
(***************************************************************************)

\* C13: every update request the edit form has issued carries the logDate of
\* the worklog as it was loaded, whatever the user did to the fields before
C13_UpdateKeepsLogDate ==
    \A i \in 1..Len(efSent) :
        efData # Null /\ efSent[i].logDate = Val(efData).logDate

\* A request went out with an activity, a summary and a time spent that all
\* differ from the loaded worklog's
C13_Witness ==
    /\ efData # Null
    /\ \E i \in 1..Len(efSent) :
          /\ efSent[i].activityType # Val(efData).activityType
          /\ efSent[i].summary # trim(Val(efData).summary)
          /\ efSent[i].timeSpent # Val(efData).timeSpent
          /\ efSent[i].blockers # Val(efData).blockers

(***************************************************************************)
(* Claims about LoginPage                                                  *)
(***************************************************************************)
\* login has returned in this step
LoginReturns == sReturned' # sReturned

\* C14: a successful login with role USER or ADMIN navigates to /dashboard or
\* /admin, the guard lets that navigation through with the cookies the login
\* wrote, and a failed login navigates nowhere
C14_LoginLandsByRole ==
    [][/\ (LoginReturns /\ Val(sReturned').result.ok) =>
             LET role == Val(Val(sReturned').result.data).role
             IN  /\ role = Some("USER") => mwReq'.pathname = P_dashboard /\ mwResp' = NoResponse
                 /\ role = Some("ADMIN") => mwReq'.pathname = P_admin /\ mwResp' = NoResponse
       /\ (LoginReturns /\ ~Val(sReturned').result.ok) => UNCHANGED guardVars
       /\ (mwResp = NoResponse /\ mwResp' # NoResponse) => mwResp' = NextResponse_next]_vars

\* An ADMIN has logged in and the guard has let the navigation to /admin
\* through
C14_Witness ==
    /\ sReturned # Null /\ Val(sReturned).result.ok
    /\ mwReq.pathname = P_admin /\ mwResp = NextResponse_next

\* C15: the redirect after a login happens only once a fetch of /auth/me has
\* completed
C15_RedirectAfterAuthMe ==
    (mwReq.pathname \in {P_dashboard, P_admin}) =>
        (Endpoint = "/auth/me" /\ \E c \in 1..Len(sCalls) : sCalls[c].pc = "done")

(***************************************************************************)
(* Claims about AddWorklogForm                                             *)
(***************************************************************************)
\* A create request goes out in this step
CreateIssued == Len(afSent') > Len(afSent)

\* C20: a create request for a logDate d goes out only if a conflict check
\* for d has completed and reported no worklog, no check for d is pending,
\* and the check for d that completed last did not report one
C20_CreateOnlyAfterClearCheck ==
    [][CreateIssued =>
          LET d == afSent'[Len(afSent')].logDate
              ofDate == {k \in 1..Len(afChecks) : afChecks[k].date = d}
          IN  /\ ofDate # {}
              /\ \A k \in ofDate : afChecks[k].pc = "done"
              /\ \E k \in ofDate : ~afChecks[k].used]_vars

\* Every conflict check the form started has settled
AllChecksCompleted == \A k \in 1..Len(afChecks) : afChecks[k].pc = "done"

\* C21: once all conflict checks have completed, dateUsed is the result of
\* the check started last for the selected logDate, in whatever order the
\* responses of the checks for earlier dates arrived
C21_DateUsedOfSelectedDate ==
    (afMounted /\ afLogDate # "" /\ AllChecksCompleted) =>
        /\ afChecks # <<>>
        /\ afChecks[Len(afChecks)].date = afLogDate
        /\ afDateUsed = afChecks[Len(afChecks)].used

(***************************************************************************)
(* Claims about the rows of WorklogsList and the actions of WorklogDetail  *)
(***************************************************************************)
\* C22: in WorklogsList, while the delete request of a worklog is in flight
\* the page offers no enabled Delete button for that worklog, whatever is
\* deleted on the other rows meanwhile
C22_BusyRowStaysDisabled ==
    (pgPage = "WorklogsList") =>
        \A r \in 1..Len(pgSent) :
            pgSent[r].pending =>
                \A ctl \in Offered :
                    (ctl.action = "worklog.delete" /\ ctl.id = pgSent[r].id) => ~ctl.enabled

\* C23: WorklogDetail of a worklog whose project is ARCHIVED on the server
\* offers neither Edit nor Delete, whichever of the project-detail load and
\* the worklog-detail load completes first, and also while the
\* project-detail load is pending or after it has failed
C23_ArchivedWorklogHasNoActions ==
    (pgPage = "WorklogDetail" /\ pgServerStatus = ProjectStatus_ARCHIVED) =>
        \A ctl \in Offered : ctl.action \notin {"worklog.edit", "worklog.delete"}

====
